---- MODULE Spec2Model ----
(***************************************************************************)
(* Model of the Hedera DEX plugins of this repository:                     *)
(*   - src/src/plugin.ts                (FETCH_ALL_POOLS action, /pools)    *)
(*   - src/plugin-hedera-dex/src/plugin.ts (LIST_POOLS action)              *)
(* One behaviour of the model is one request handled by one of the         *)
(* handlers: read the settings, fetch the factory logs, decode every log   *)
(* entry (two token requests per candidate), build the result.             *)
(*                                                                         *)
(* Hex strings are sequences of hex digits (0..15); the "0x" prefix, which *)
(* String.replace('0x','') strips and parseInt(..,16) accepts, is left     *)
(* out.  A JavaScript number is [k, hi, lo]: the value hi * 2^32 + lo, or  *)
(* NaN.  An entity id "0.0.<n>" is the number n.                           *)
(***************************************************************************)
EXTENDS Integers, Sequences, FiniteSets, TLC

(***************************************************************************)
(* Bounds of the model.                                                    *)
(***************************************************************************)
\* Longest log batch handed to parsePoolCreationEvents on its own (SpecParse).
MaxLogs == 2
\* Longest log batch the mirror node answers a handler with (Spec).
MaxHandlerLogs == 2
\* Longest log batch answered to GET_POOL_INFO.
MaxFindLogs == 2
\* Largest entity number of the token pairs extractPoolContractId is run on.
MaxTokenNum == 10
\* Largest amount of a swap request.
MaxAmount == 10
\* Largest entity number of the unbroken range taken through both id
\* conversions.
MaxAccountNum == 120
\* Longest batch of decodable entries LIST_POOLS is followed from the end of
\* parsePoolCreationEvents on (SpecListing).
MaxDecoded == 22

(***************************************************************************)
(* JavaScript values.                                                      *)
(***************************************************************************)
Str(ds) == [k |-> "string", v |-> ds]
Null == [k |-> "null", v |-> <<>>]
Undefined == [k |-> "undefined", v |-> <<>>]
IsString(x) == x.k = "string"

Num(hi, lo) == [k |-> "num", hi |-> hi, lo |-> lo]
NaN == [k |-> "NaN", hi |-> 0, lo |-> 0]
NumOf(n) == Num(0, n)

\* Value of the eight digits of ds from position i on, in base 16.
Chunk8(ds, i) ==
    ((((((ds[i] * 16 + ds[i + 1]) * 16 + ds[i + 2]) * 16 + ds[i + 3]) * 16
        + ds[i + 4]) * 16 + ds[i + 5]) * 16 + ds[i + 6]) * 16 + ds[i + 7]

RECURSIVE ParseFrom(_, _, _)
\* Value of the digits of ds from position i on, in base 16, continuing
\* from acc; eight digits at a time while eight are left.
ParseFrom(ds, i, acc) ==
    IF i > Len(ds) THEN acc
    ELSE IF i + 7 <= Len(ds)
    THEN ParseFrom(ds, i + 8, acc * 65536 * 65536 + Chunk8(ds, i))
    ELSE ParseFrom(ds, i + 1, 16 * acc + ds[i])

\* Value of the digit sequence ds in base 16, continuing from acc.
ParseDigits(ds, acc) == ParseFrom(ds, 1, acc)

\* The last n elements of s (String.slice(-n)).
SliceLast(s, n) ==
    IF Len(s) <= n THEN s ELSE SubSeq(s, Len(s) - n + 1, Len(s))

\* The elements of s before its last n.
DropLast(s, n) ==
    IF Len(s) <= n THEN <<>> ELSE SubSeq(s, 1, Len(s) - n)

\* parseInt(x, 16): NaN for a value with no leading hex digit (null,
\* undefined, the empty string), else the whole number.  Throws nothing.
parseInt16(x) ==
    IF ~IsString(x) \/ x.v = <<>> THEN NaN
    ELSE Num(ParseDigits(DropLast(x.v, 8), 0), ParseDigits(SliceLast(x.v, 8), 0))

(***************************************************************************)
(* Constants of the two plugins.                                           *)
(***************************************************************************)
POOL_CREATED_TOPIC ==
    Str(<< 7, 8, 3, 12, 12, 10, 1, 12, 0, 4, 1, 2, 13, 13, 0, 13,
           6, 9, 5, 14, 7, 8, 4, 5, 6, 8, 12, 9, 6, 13, 10, 2,
           14, 9, 12, 2, 2, 15, 15, 9, 8, 9, 3, 5, 7, 10, 2, 14,
           8, 11, 1, 13, 9, 11, 2, 11, 4, 14, 6, 11, 7, 1, 1, 8 >>)

\* Largest entity number hexToHederaId accepts.
MaxEntityNum == 100000000
\* Offset added to the two token numbers by extractPoolContractId.
SyntheticPoolOffset == 1000000
\* Number of topics a pool-created entry must have.
MinTopics == 4
\* Hex digits of the entity number hexToHederaId keeps (4 bytes).
EntityHexDigits == 8

InvalidId == NumOf(0)

(***************************************************************************)
(* hexToHederaId                                                           *)
(***************************************************************************)
\* A non-string argument makes hex.replace throw a TypeError.
hexToHederaIdThrows(hex) == ~IsString(hex)

\* plugin-hedera-dex: last 8 hex digits, 0 and > 100,000,000 rejected.
hexToHederaIdDex(hex) ==
    LET entityHex == SliceLast(hex.v, EntityHexDigits)
        entityNum == parseInt16(Str(entityHex))
    IN  IF entityNum.k = "NaN" THEN NaN
        ELSE IF entityNum.lo = 0 \/ entityNum.lo > MaxEntityNum THEN InvalidId
        ELSE NumOf(entityNum.lo)

\* src/src/plugin.ts: the whole string parsed, nothing rejected; never
\* throws (parseInt converts its argument).
hexToHederaIdLegacy(hex) == parseInt16(hex)

(***************************************************************************)
(* extractPoolContractId (plugin-hedera-dex)                               *)
(***************************************************************************)
\* parseInt(id.split('.')[2]) of "0.0.<n>"; ids here are below 2^32.
extractPoolContractId(token0Id, token1Id) ==
    IF token0Id.k = "NaN" \/ token1Id.k = "NaN" THEN NaN
    ELSE NumOf(token0Id.lo + token1Id.lo + SyntheticPoolOffset)

(***************************************************************************)
(* Log entries: { topics, data } as the mirror node returns them.          *)
(***************************************************************************)
Array(xs) == [k |-> "array", v |-> xs]
\* log.topics[i] (0-based in the source): undefined past the end.
TopicAt(log, i) ==
    IF i + 1 <= Len(log.topics.v) THEN log.topics.v[i + 1] ELSE Undefined

\* Mutant: the length check is forgotten.
IsPoolCreationEventNoLength(log) ==
    /\ log.topics.k = "array"
    /\ Len(log.topics.v) >= 1
    /\ log.topics.v[1] = POOL_CREATED_TOPIC

\* log.topics && log.topics[0] === POOL_CREATED_TOPIC && log.topics.length >= 4
IsPoolCreationEvent(log) ==
    /\ log.topics.k = "array"
    /\ Len(log.topics.v) >= 1
    /\ log.topics.v[1] = POOL_CREATED_TOPIC
    /\ Len(log.topics.v) >= MinTopics

\* String.slice(from, to) on the digits (0-based, end exclusive, clamped).
Slice(s, from, to) ==
    LET hiEnd == IF to > Len(s) THEN Len(s) ELSE to
    IN  IF from >= hiEnd THEN <<>> ELSE SubSeq(s, from + 1, hiEnd)

\* First digit and end of the pool address in log.data without its "0x":
\* log.data.slice(66, 106).
PoolAddressFrom == 64
PoolAddressTo == 104

\* Does decoding the entry throw inside the try block?
DecodeThrowsDex(log) ==
    \/ hexToHederaIdThrows(TopicAt(log, 1))
    \/ hexToHederaIdThrows(TopicAt(log, 2))

\* hexToHederaId of src/src/plugin.ts never throws; log.data.slice does
\* when data is not a string.
DecodeThrowsLegacy(log) == ~IsString(log.data)

CandidateDex(log) ==
    LET token0Id == hexToHederaIdDex(TopicAt(log, 1))
        token1Id == hexToHederaIdDex(TopicAt(log, 2))
    IN  [token0Id |-> token0Id,
         token1Id |-> token1Id,
         fee      |-> parseInt16(TopicAt(log, 3)),
         poolId   |-> extractPoolContractId(token0Id, token1Id)]

CandidateLegacy(log) ==
    [token0Id |-> hexToHederaIdLegacy(TopicAt(log, 1)),
     token1Id |-> hexToHederaIdLegacy(TopicAt(log, 2)),
     fee      |-> parseInt16(TopicAt(log, 3)),
     poolId   |-> hexToHederaIdLegacy(
                      Str(Slice(log.data.v, PoolAddressFrom, PoolAddressTo)))]

\* token0Id === '0.0.0' || token1Id === '0.0.0' || poolId === '0.0.0'
HasInvalidIds(c) ==
    c.token0Id = InvalidId \/ c.token1Id = InvalidId \/ c.poolId = InvalidId

NoCandidate == [token0Id |-> NaN, token1Id |-> NaN, fee |-> NaN, poolId |-> NaN]

(***************************************************************************)
(* Token metadata: what GET /api/v1/tokens/{id} answers, and what          *)
(* fetchTokenInfo makes of it.  A field of the payload is [has, v].        *)
(***************************************************************************)
Some(x) == [has |-> TRUE, v |-> x]
NoStr == [has |-> FALSE, v |-> ""]
NoNum == [has |-> FALSE, v |-> 0]
NoId == [has |-> FALSE, v |-> NaN]

\* The mirror node's answer for a token id, when it answers.
TokenPayload(tokenId) ==
    IF tokenId = NumOf(4660) THEN
        [decimals |-> Some(8), name |-> Some("Wrapped HBAR"), symbol |-> Some("WHBAR"),
         token_id |-> Some(tokenId)]
    ELSE IF tokenId = NumOf(22136) THEN
        [decimals |-> Some(6), name |-> Some("USD Coin"), symbol |-> Some("USDC"),
         token_id |-> Some(tokenId)]
    ELSE IF tokenId = NumOf(39612) THEN
        [decimals |-> Some(0), name |-> NoStr, symbol |-> Some("TKNC"),
         token_id |-> Some(tokenId)]
    ELSE IF tokenId = NumOf(3567) THEN
        [decimals |-> NoNum, name |-> Some("Token D"), symbol |-> Some("usdc"),
         token_id |-> Some(tokenId)]
    ELSE
        [decimals |-> NoNum, name |-> NoStr, symbol |-> NoStr, token_id |-> NoId]

NullToken == [ok |-> FALSE, id |-> NaN, decimals |-> 0, name |-> "", symbol |-> ""]

\* Default decimals of plugin-hedera-dex's fetchTokenInfo.
DefaultDecimals == 8

\* plugin-hedera-dex: the object built when axios.get resolved with payload.
\* token.decimals || 8 takes the default for a missing and for a 0 value.
TokenInfoDex(tokenId, payload) ==
    [ok       |-> TRUE,
     id       |-> tokenId,
     decimals |-> IF payload.decimals.has /\ payload.decimals.v # 0
                  THEN payload.decimals.v ELSE DefaultDecimals,
     name     |-> IF payload.name.has /\ payload.name.v # ""
                  THEN payload.name.v ELSE "Unknown Token",
     symbol   |-> IF payload.symbol.has /\ payload.symbol.v # ""
                  THEN payload.symbol.v ELSE "UNKNOWN"]

\* src/src/plugin.ts: id token.token_id as the node sent it (NaN stands for
\* undefined), decimals parseInt(token.decimals) (NaN, here -1, when
\* missing), name token.name || token.symbol, symbol as sent ("undefined"
\* stands for a missing one).
TokenInfoLegacy(tokenId, payload) ==
    [ok       |-> TRUE,
     id       |-> IF payload.token_id.has THEN payload.token_id.v ELSE NaN,
     decimals |-> IF payload.decimals.has THEN payload.decimals.v ELSE -1,
     name     |-> IF payload.name.has /\ payload.name.v # "" THEN payload.name.v
                  ELSE IF payload.symbol.has THEN payload.symbol.v ELSE "undefined",
     symbol   |-> IF payload.symbol.has THEN payload.symbol.v ELSE "undefined"]

(***************************************************************************)
(* Configuration.  An unset setting is "".                                 *)
(***************************************************************************)
MainnetUrl == "https://mainnet.mirrornode.hedera.com"
MainnetPublicUrl == "https://mainnet-public.mirrornode.hedera.com"
TestnetUrl == "https://testnet.mirrornode.hedera.com"
PreviewnetUrl == "https://previewnet.mirrornode.hedera.com"
CustomUrl == "https://mirror.example.org"

\* src/src/plugin.ts
getHederaMirrorNodeUrl(network, baseUrl) ==
    IF baseUrl # "" /\ baseUrl # MainnetUrl THEN baseUrl
    ELSE IF network = "testnet" THEN TestnetUrl
    ELSE IF network = "previewnet" THEN PreviewnetUrl
    ELSE MainnetUrl

\* SAUCERSWAP_V2_FACTORY_CONTRACTS[network]; "" for null and for no entry.
SAUCERSWAP_V2_FACTORY_CONTRACTS(network) ==
    IF network = "mainnet" THEN "0.0.3946833"
    ELSE IF network = "testnet" THEN "0.0.1197038"
    ELSE ""

\* CONTRACT_ADDRESSES[network]?.mirrorNode of plugin-hedera-dex
ContractAddressesMirrorNode(network) ==
    IF network = "mainnet" THEN MainnetPublicUrl
    ELSE IF network = "testnet" THEN TestnetUrl
    ELSE ""

\* CONTRACT_ADDRESSES[network]?.factory of plugin-hedera-dex
ContractAddressesFactory(network) ==
    IF network = "mainnet" THEN "0.0.3946833"
    ELSE IF network = "testnet" THEN "0.0.1197038"
    ELSE ""

\* runtime.getSetting('HEDERA_MIRROR_NODE_URL') || CONTRACT_ADDRESSES[..]
MirrorNodeUrlDex(network, override) ==
    IF override # "" THEN override ELSE ContractAddressesMirrorNode(network)

\* Page size of the log request of each plugin.
LegacyLogLimit == 20
DexLogLimit == 100
\* Pools carried in the result: pools.slice(0, n).
ActionSliceLegacy == 10
RouteSlice == 20
ActionSliceDex == 20

LegacyOps == {"FETCH_ALL_POOLS", "ROUTE_POOLS"}
DexOps == {"LIST_POOLS"}
Ops == LegacyOps \cup DexOps

Networks == {"mainnet", "testnet", "previewnet", "devnet"}
Overrides == {"", CustomUrl, MainnetUrl}
Settings == [network : Networks, override : Overrides, demo : BOOLEAN]

(***************************************************************************)
(* Requests, labels, results.                                              *)
(***************************************************************************)
LogsRequest(url, factory, limit) ==
    [kind |-> "logs", url |-> url, target |-> factory, token |-> NaN,
     limit |-> limit]
TokenRequest(url, tokenId) ==
    [kind |-> "token", url |-> url, target |-> "", token |-> tokenId,
     limit |-> 0]

\* A data-source label: its words, and the url and count it interpolates.
Label(words, url, count) == [words |-> words, url |-> url, count |-> count]
NoLabel == Label(<<>>, "", 0)
DemoLabel == Label(<<"Demo", "Mode", "Mock", "Data">>, "", 0)
NotSupportedLabel(network) ==
    Label(<<"Demo", "Mode", network, "not", "supported">>, "", 0)
NoPoolsLabel(url) ==
    Label(<<"Hedera", "Mirror", "Node", "No", "pools", "found", "using",
            "mock", "data">>, url, 0)
ErrorLabel(url) ==
    Label(<<"Hedera", "Mirror", "Node", "Error", "fetching", "data", "using",
            "mock", "data">>, url, 0)
LiveLabel(url, count) ==
    Label(<<"Hedera", "Mirror", "Node", "pools", "from", "contract",
            "events">>, url, count)

\* A pool record; src is the position of the log entry it was decoded from
\* (0 for the built-in record), kept for the properties only.
Pool(id, c, tokenA, tokenB, liquidity, src) ==
    [id |-> id, contractId |-> c.poolId, tokenA |-> tokenA, tokenB |-> tokenB,
     fee |-> c.fee, liquidity |-> liquidity, src |-> src]

mockPoolsData ==
    << [id |-> 1, contractId |-> NumOf(123456),
        tokenA |-> [ok |-> TRUE, id |-> NumOf(456789), decimals |-> 8,
                    name |-> "Hedera Hashgraph", symbol |-> "HBAR"],
        tokenB |-> [ok |-> TRUE, id |-> NumOf(731861), decimals |-> 6,
                    name |-> "SaucerSwap", symbol |-> "SAUCE"],
        fee |-> NumOf(3000), liquidity |-> "1000000000000000000",
        src |-> 0] >>

\* Texts and error messages are sequences of words; a value the text
\* interpolates (a count, a network) is carried by the record it belongs to.
UnsupportedNetwork == <<"Unsupported", "network:">>
FactoryNotFound == <<"Factory", "contract", "not", "found", "for", "network:">>
NoPoolsFound == <<"No", "pools", "found", "in", "contract", "events">>
NetworkError == <<"Network", "error">>
SuccessText == <<"Successfully", "fetched", "pools", "from", "SaucerSwap">>
FailedText == <<"Failed", "to", "fetch", "pools", "from", "SaucerSwap:">>

NoResult ==
    [returned |-> FALSE, success |-> FALSE, pools |-> <<>>, totalPools |-> 0,
     poolCount |-> 0, dataSource |-> NoLabel, error |-> "", message |-> <<>>,
     text |-> <<>>]
\* Mutant: the counts are those of the pools carried in the result.
SuccessCountsReturned(ps, limit, label) ==
    [returned |-> TRUE, success |-> TRUE, pools |-> Slice(ps, 0, limit),
     totalPools |-> Len(Slice(ps, 0, limit)),
     poolCount |-> Len(Slice(ps, 0, limit)), dataSource |-> label,
     error |-> "", message |-> <<>>, text |-> SuccessText]
\* The return statement: data.pools, data.totalPools, values.poolCount (the
\* route's response has no poolCount).
Success(ps, limit, label) ==
    [returned |-> TRUE, success |-> TRUE, pools |-> Slice(ps, 0, limit),
     totalPools |-> Len(ps), poolCount |-> Len(ps), dataSource |-> label,
     error |-> "", message |-> <<>>, text |-> SuccessText]
\* The catch block of the LIST_POOLS / FETCH_ALL_POOLS handler.
Failure(errorMessage) ==
    [returned |-> TRUE, success |-> FALSE, pools |-> <<>>, totalPools |-> 0,
     poolCount |-> 0, dataSource |-> NoLabel, error |-> "FETCH_POOLS_FAILED",
     message |-> errorMessage, text |-> FailedText \o errorMessage]

(***************************************************************************)
(* Inputs: the log entries the mirror node may return.                     *)
(***************************************************************************)
Zeros(n) == [i \in 1..n |-> 0]
Pow16(e) == IF e = 0 THEN 1 ELSE IF e = 1 THEN 16 ELSE IF e = 2 THEN 256
            ELSE IF e = 3 THEN 4096 ELSE IF e = 4 THEN 65536
            ELSE IF e = 5 THEN 1048576 ELSE IF e = 6 THEN 16777216
            ELSE 268435456
Hex8(n) == [i \in 1..8 |-> (n \div Pow16(8 - i)) % 16]
\* A 32-byte topic: digit hi just above the low 4 bytes, which hold lo.
Word(hi, lo) == Str(Zeros(55) \o <<hi>> \o Hex8(lo))

\* The event data of the repository's tests; another first topic.
TestData ==
    Str(Word(0, 32).v \o Word(0, 64).v \o <<9, 10, 11, 12, 1, 2, 3, 4>> \o Zeros(56))
OtherTopic == Str(<<13, 13, 15, 2>> \o Zeros(60))

Entry(topics, data) == [topics |-> topics, data |-> data]
PoolCreated(t0, t1, fee, data) ==
    Entry(Array(<<POOL_CREATED_TOPIC, t0, t1, Word(0, fee)>>), data)

EntryPair3000 == PoolCreated(Word(0, 4660), Word(0, 22136), 3000, TestData)
EntryPair500 == PoolCreated(Word(0, 22136), Word(0, 4660), 500, TestData)
EntrySameToken == PoolCreated(Word(0, 4660), Word(0, 4660), 3000, TestData)
EntryZeroToken0 == PoolCreated(Word(0, 0), Word(0, 22136), 3000, TestData)
EntryZeroToken1 == PoolCreated(Word(0, 4660), Word(1, 0), 500, TestData)
EntryTooLarge == PoolCreated(Word(0, MaxEntityNum + 1), Word(0, 3567), 500, TestData)
EntryHighBytes == PoolCreated(Word(1, 39612), Word(0, MaxEntityNum), 10000, TestData)
EntryOtherEvent ==
    Entry(Array(<<OtherTopic, Word(0, 4660), Word(0, 22136), Word(0, 3000)>>), TestData)
EntryThreeTopics ==
    Entry(Array(<<POOL_CREATED_TOPIC, Word(0, 4660), Word(0, 22136)>>), TestData)
EntryBroken ==
    Entry(Array(<<POOL_CREATED_TOPIC, Null, Word(0, 22136), Word(0, 3000)>>), Undefined)
EntryNoTopics == Entry(Undefined, TestData)

LogEntries ==
    {EntryPair3000, EntryPair500, EntrySameToken, EntryZeroToken0,
     EntryZeroToken1, EntryTooLarge, EntryHighBytes, EntryOtherEvent,
     EntryThreeTopics, EntryBroken, EntryNoTopics}

Batches == UNION {[1..n -> LogEntries] : n \in 0..MaxLogs}

\* The entries the handlers are run on: one that decodes to a pool in both
\* plugins, one whose token0 is the zero address, one unrelated event, one
\* that throws while decoded.
HandlerEntries == {EntryPair3000, EntryZeroToken0, EntryOtherEvent, EntryBroken}
HandlerBatches == UNION {[1..n -> HandlerEntries] : n \in 0..MaxHandlerLogs}

\* The entries GET_POOL_INFO is run on: WHBAR/USDC at 0.30 %, USDC/WHBAR at
\* 0.05 %, a pool whose second symbol is the lower-case "usdc", a pool of
\* other tokens, and entries the loop skips.
EntryLowerCase == PoolCreated(Word(0, 4660), Word(0, 3567), 10000, TestData)
\* The tokens of EntryPair3000 in the same order, at 0.05 %.
EntrySamePair500 == PoolCreated(Word(0, 4660), Word(0, 22136), 500, TestData)
FindEntries ==
    {EntryPair3000, EntryPair500, EntrySamePair500, EntryLowerCase,
     EntryHighBytes,
     EntryZeroToken0, EntryOtherEvent, EntryBroken}
FindBatches == UNION {[1..n -> FindEntries] : n \in 0..MaxFindLogs}

(***************************************************************************)
(* State.                                                                  *)
(***************************************************************************)
VARIABLES
    op,          \* the handler that runs
    settings,    \* HEDERA_NETWORK, HEDERA_MIRROR_NODE_URL, DEMO_MODE
    message,     \* message.content.text, as far as GET_POOL_INFO reads it
    callback,    \* whether the caller passed a response callback
    conv,        \* an id taken through hederaIdToEvmAddress and hexToHederaId
    swap,        \* SWAP_TOKENS: the handler's locals and the transaction
    pc,          \* where the handler is
    requests,    \* the GET requests issued so far, in order
    logsReq,     \* the log request: "idle", "pending", "rejected", "resolved"
    logs,        \* the log batch the mirror node answered with
    idx,         \* position of the for-of loop of parsePoolCreationEvents
    cand,        \* the decoded candidate whose tokens are being fetched
    fetchA,      \* the fetchTokenInfo call for token0: state and outcome
    fetchB,      \* the fetchTokenInfo call for token1
    pools,       \* the pools array of parsePoolCreationEvents
    fate,        \* what became of each log entry processed so far
    shown,       \* the handler's pools variable
    dataSource,  \* the handler's dataSource variable
    result,      \* what the handler returned (or sent, for the route)
    callbacks,   \* number of times the response callback was invoked
    poolsText    \* the lines the handler formatted, one per pool shown

vars == <<op, settings, message, callback, conv, swap, pc, requests, logsReq,
          logs, idx, cand, fetchA, fetchB, pools, fate, shown, dataSource,
          result, callbacks, poolsText>>

\* The text of a message: how it names a token pair ("slash": A/B, "and":
\* A and B, "with": A with B, "none": no pair, "empty": no text) and the two
\* words.  LIST_POOLS, FETCH_ALL_POOLS and the route do not read it.
Message(form, a, b) == [form |-> form, a |-> a, b |-> b]
NoMessage == Message("empty", "", "")

\* An id '0.0.num', the address hederaIdToEvmAddress made of it (its prefix
\* and hex digits) and the id hexToHederaId made of that address.
Conversion(num, evmAddress, hederaId) ==
    [num |-> num, evmAddress |-> evmAddress, hederaId |-> hederaId]
NoAddress == [prefix |-> "", digits |-> <<>>]
NoConversion == Conversion(0, NoAddress, NaN)

\* SWAP_TOKENS: the parsed request, the transaction the handler built, how
\* far it got (submitted: transaction.execute resolved; receipt: the status
\* of the receipt, "" while there is none), and what simulateSwap or
\* executeRealSwap returned.
NoTransaction ==
    [built |-> FALSE, contractId |-> 0, amountIn |-> 0, amountOutMinimum |-> 0,
     path |-> <<>>, recipient |-> <<>>, payableAmount |-> 0]
NoSwapResult ==
    [returned |-> FALSE, success |-> FALSE, transactionId |-> "", error |-> <<>>]
\* A decimal text: Number.prototype.toFixed(digits), or a literal; NoFixed
\* where there is none.
Fixed(whole, frac, digits) == [whole |-> whole, frac |-> frac, digits |-> digits]
NoFixed == Fixed(0, 0, -1)
NoSwapDetails ==
    [returned |-> FALSE, estimatedOutput |-> NoFixed, feeTier |-> NoFixed,
     priceImpact |-> NoFixed]
NoSwap ==
    [amount |-> 0, fromToken |-> "", toToken |-> "",
     transaction |-> NoTransaction, submitted |-> FALSE, receipt |-> "",
     swapDetails |-> NoSwapDetails, swapResult |-> NoSwapResult]

Idle == [st |-> "idle", tok |-> NullToken]
Pending == [st |-> "pending", tok |-> NullToken]
Settled(tok) == [st |-> "settled", tok |-> tok]

Legacy == op \in LegacyOps

\* The handler of FETCH_ALL_POOLS calls its callback unconditionally, the
\* route has none, the actions of plugin-hedera-dex take an optional one.
CallbackPassed(o) ==
    IF o = "FETCH_ALL_POOLS" THEN {TRUE}
    ELSE IF o = "ROUTE_POOLS" THEN {FALSE}
    ELSE BOOLEAN
Network == settings.network

\* The base URL the handler uses for its requests.
ApiUrl ==
    IF Legacy THEN getHederaMirrorNodeUrl(Network, settings.override)
    ELSE MirrorNodeUrlDex(Network, settings.override)

FactoryContract ==
    IF Legacy THEN SAUCERSWAP_V2_FACTORY_CONTRACTS(Network)
    ELSE ContractAddressesFactory(Network)

Init ==
    /\ op \in Ops
    /\ settings \in Settings
    /\ message = NoMessage
    /\ callback \in CallbackPassed(op)
    /\ swap = NoSwap
    /\ conv = NoConversion
    /\ pc = "start"
    /\ requests = <<>>
    /\ logsReq = "idle"
    /\ logs = <<>>
    /\ idx = 0
    /\ cand = NoCandidate
    /\ fetchA = Idle
    /\ fetchB = Idle
    /\ pools = <<>>
    /\ fate = <<>>
    /\ shown = <<>>
    /\ dataSource = NoLabel
    /\ result = NoResult
    /\ callbacks = 0
    /\ poolsText = <<>>

(***************************************************************************)
(* The handlers, up to the log request.                                    *)
(***************************************************************************)
\* src/src/plugin.ts: demo mode, or no factory contract for the network.
UseDemoData ==
    /\ pc = "start"
    /\ Legacy
    /\ settings.demo \/ FactoryContract = ""
    /\ shown' = mockPoolsData
    /\ dataSource' = IF settings.demo THEN DemoLabel
                     ELSE NotSupportedLabel(Network)
    /\ pc' = "respond"
    /\ UNCHANGED <<op, settings, message, callback, conv, swap, logsReq,
                   requests, logs, idx, cand, fetchA, fetchB, pools, fate,
                   result, callbacks, poolsText>>

\* plugin-hedera-dex: no mirror node URL or no factory contract: the throw
\* lands in the handler's catch block.
RejectConfiguration ==
    /\ pc = "start"
    /\ op \in Ops
    /\ ~Legacy
    /\ ApiUrl = "" \/ FactoryContract = ""
    /\ result' = Failure(IF ApiUrl = "" THEN UnsupportedNetwork
                         ELSE FactoryNotFound)
    /\ pc' = "done"
    /\ UNCHANGED <<op, settings, message, callback, conv, swap, logsReq,
                   requests, logs, idx, cand, fetchA, fetchB, pools, fate,
                   shown, dataSource, callbacks, poolsText>>

\* Both plugins: axios.get of the factory contract's logs is issued.
RequestLogs ==
    /\ pc = "start"
    /\ op \in Ops
    /\ IF Legacy THEN ~settings.demo /\ FactoryContract # ""
       ELSE ApiUrl # "" /\ FactoryContract # ""
    /\ requests' = Append(requests,
                     LogsRequest(ApiUrl, FactoryContract,
                                 IF Legacy THEN LegacyLogLimit ELSE DexLogLimit))
    /\ logsReq' = "pending"
    /\ pc' = "fetchLogs"
    /\ UNCHANGED <<op, settings, message, callback, conv, swap, logs, idx,
                   cand, fetchA, fetchB, pools, fate, shown, dataSource,
                   result, callbacks, poolsText>>

\* Mutant: the inner catch rethrows, as in plugin-hedera-dex.
LogsRejectedRethrown ==
    /\ pc = "fetchLogs"
    /\ op \in Ops
    /\ logsReq' = "rejected"
    /\ result' = Failure(NetworkError)
    /\ pc' = "done"
    /\ UNCHANGED <<op, settings, message, callback, conv, swap, requests,
                   logs, idx, cand, fetchA, fetchB, pools, fate, shown,
                   dataSource, callbacks, poolsText>>

\* Mutant: a failed log request is issued a second time before giving up.
LogsRejectedRetried ==
    /\ pc = "fetchLogs"
    /\ op \in Ops
    /\ requests' = Append(requests, requests[Len(requests)])
    /\ logsReq' = "rejected"
    /\ IF Legacy
       THEN /\ shown' = mockPoolsData
            /\ dataSource' = ErrorLabel(ApiUrl)
            /\ pc' = "respond"
            /\ UNCHANGED result
       ELSE /\ result' = Failure(NetworkError)
            /\ pc' = "done"
            /\ UNCHANGED <<shown, dataSource>>
    /\ UNCHANGED <<op, settings, message, callback, conv, swap, logs, idx,
                   cand, fetchA, fetchB, pools, fate, callbacks, poolsText>>

\* The log request fails (network error, non-2xx status, no body).
LogsRejected ==
    /\ pc = "fetchLogs"
    /\ op \in Ops
    /\ logsReq' = "rejected"
    /\ IF Legacy
       THEN /\ shown' = mockPoolsData
            /\ dataSource' = ErrorLabel(ApiUrl)
            /\ pc' = "respond"
            /\ UNCHANGED result
       ELSE /\ result' = Failure(NetworkError)
            /\ pc' = "done"
            /\ UNCHANGED <<shown, dataSource>>
    /\ UNCHANGED <<op, settings, message, callback, conv, swap, requests,
                   logs, idx, cand, fetchA, fetchB, pools, fate, callbacks,
                   poolsText>>

\* The log request resolves: logs = logsResponse.data.logs || [], and
\* parsePoolCreationEvents starts.
LogsResolved ==
    /\ pc = "fetchLogs"
    /\ op \in Ops
    /\ \E batch \in HandlerBatches : logs' = batch
    /\ logsReq' = "resolved"
    /\ idx' = 1
    /\ pc' = "loop"
    /\ UNCHANGED <<op, settings, message, callback, conv, swap, requests,
                   cand, fetchA, fetchB, pools, fate, shown, dataSource,
                   result, callbacks, poolsText>>

(***************************************************************************)
(* parsePoolCreationEvents: one pass of the for-of loop per log entry.     *)
(***************************************************************************)
Log == logs[idx]
InLoop == pc = "loop" /\ idx <= Len(logs)

DecodeThrows(log) ==
    IF Legacy THEN DecodeThrowsLegacy(log) ELSE DecodeThrowsDex(log)
Candidate(log) ==
    IF Legacy THEN CandidateLegacy(log) ELSE CandidateDex(log)
\* Only plugin-hedera-dex checks the decoded ids.
Rejected(c) == ~Legacy /\ HasInvalidIds(c)

Fate(step, a, b) == [step |-> step, a |-> a, b |-> b]

\* The entry is not a pool-created event with four topics: nothing is done.
SkipEntry ==
    /\ InLoop
    /\ ~IsPoolCreationEvent(Log)
    /\ idx' = idx + 1
    /\ fate' = Append(fate, Fate("skipped", FALSE, FALSE))
    /\ UNCHANGED <<op, settings, message, callback, conv, swap, logsReq, pc,
                   requests, logs, cand, fetchA, fetchB, pools, shown,
                   dataSource, result, callbacks, poolsText>>

\* Mutant: no try/catch around the loop body: the exception leaves
\* parsePoolCreationEvents and reaches the handler.
DecodeFailsUncaught ==
    /\ InLoop
    /\ IsPoolCreationEvent(Log)
    /\ DecodeThrows(Log)
    /\ result' = Failure(<<"TypeError">>)
    /\ pc' = "done"
    /\ UNCHANGED <<op, settings, message, callback, conv, swap, logsReq,
                   requests, logs, idx, cand, fetchA, fetchB, pools, fate,
                   shown, dataSource, callbacks, poolsText>>

\* Decoding throws: the catch block of the loop body logs the error.
DecodeFails ==
    /\ InLoop
    /\ IsPoolCreationEvent(Log)
    /\ DecodeThrows(Log)
    /\ idx' = idx + 1
    /\ fate' = Append(fate, Fate("threw", FALSE, FALSE))
    /\ UNCHANGED <<op, settings, message, callback, conv, swap, logsReq, pc,
                   requests, logs, cand, fetchA, fetchB, pools, shown,
                   dataSource, result, callbacks, poolsText>>

\* plugin-hedera-dex: an id is '0.0.0': warn and continue.
SkipInvalidIds ==
    /\ InLoop
    /\ IsPoolCreationEvent(Log)
    /\ ~DecodeThrows(Log)
    /\ Rejected(Candidate(Log))
    /\ idx' = idx + 1
    /\ fate' = Append(fate, Fate("invalid", FALSE, FALSE))
    /\ UNCHANGED <<op, settings, message, callback, conv, swap, logsReq, pc,
                   requests, logs, cand, fetchA, fetchB, pools, shown,
                   dataSource, result, callbacks, poolsText>>

\* Mutant: the request for token1 is issued before the one for token0.
RequestTokensReversed ==
    /\ InLoop
    /\ IsPoolCreationEvent(Log)
    /\ ~DecodeThrows(Log)
    /\ ~Rejected(Candidate(Log))
    /\ cand' = Candidate(Log)
    /\ requests' = requests \o <<TokenRequest(ApiUrl, cand'.token1Id),
                                 TokenRequest(ApiUrl, cand'.token0Id)>>
    /\ fetchA' = Pending
    /\ fetchB' = Pending
    /\ pc' = "tokens"
    /\ UNCHANGED <<op, settings, message, callback, conv, swap, logsReq, logs,
                   idx, pools, fate, shown, dataSource, result, callbacks,
                   poolsText>>

\* Promise.all([fetchTokenInfo(token0Id), fetchTokenInfo(token1Id)]): both
\* calls run up to their axios.get, token0 first.
RequestTokens ==
    /\ InLoop
    /\ IsPoolCreationEvent(Log)
    /\ ~DecodeThrows(Log)
    /\ ~Rejected(Candidate(Log))
    /\ cand' = Candidate(Log)
    /\ requests' = requests \o <<TokenRequest(ApiUrl, cand'.token0Id),
                                 TokenRequest(ApiUrl, cand'.token1Id)>>
    /\ fetchA' = Pending
    /\ fetchB' = Pending
    /\ pc' = "tokens"
    /\ UNCHANGED <<op, settings, message, callback, conv, swap, logsReq, logs,
                   idx, pools, fate, shown, dataSource, result, callbacks,
                   poolsText>>

\* fetchTokenInfo after its request settled: the token, or null when the
\* request failed (or the body could not be read).
fetchTokenInfo(tokenId, resolved) ==
    IF ~resolved THEN NullToken
    ELSE IF Legacy THEN TokenInfoLegacy(tokenId, TokenPayload(tokenId))
    ELSE TokenInfoDex(tokenId, TokenPayload(tokenId))

SettleTokenA ==
    /\ pc = "tokens"
    /\ fetchA = Pending
    /\ \E resolved \in BOOLEAN :
         fetchA' = Settled(fetchTokenInfo(cand.token0Id, resolved))
    /\ UNCHANGED <<op, settings, message, callback, conv, swap, logsReq, pc,
                   requests, logs, idx, cand, fetchB, pools, fate, shown,
                   dataSource, result, callbacks, poolsText>>

SettleTokenB ==
    /\ pc = "tokens"
    /\ fetchB = Pending
    /\ \E resolved \in BOOLEAN :
         fetchB' = Settled(fetchTokenInfo(cand.token1Id, resolved))
    /\ UNCHANGED <<op, settings, message, callback, conv, swap, logsReq, pc,
                   requests, logs, idx, cand, fetchA, pools, fate, shown,
                   dataSource, result, callbacks, poolsText>>

\* Mutant: pools.unshift instead of pools.push.
PushPoolFront(ps, c, tokenA, tokenB, src) ==
    IF tokenA.ok /\ tokenB.ok
    THEN <<Pool(Len(ps) + 1, c, tokenA, tokenB,
                IF Legacy THEN "0" ELSE "Available", src)>> \o ps
    ELSE ps

\* Mutant: only tokenA is tested.
PushPoolPartial(ps, c, tokenA, tokenB, src) ==
    IF tokenA.ok
    THEN Append(ps, Pool(Len(ps) + 1, c, tokenA, tokenB,
                         IF Legacy THEN "0" ELSE "Available", src))
    ELSE ps

\* Mutant: the id is the position of the log entry.
PushPoolLogIndex(ps, c, tokenA, tokenB, src) ==
    IF tokenA.ok /\ tokenB.ok
    THEN Append(ps, Pool(src, c, tokenA, tokenB,
                         IF Legacy THEN "0" ELSE "Available", src))
    ELSE ps

\* if (tokenA && tokenB) pools.push({ id: pools.length + 1, ... })
PushPool(ps, c, tokenA, tokenB, src) ==
    IF tokenA.ok /\ tokenB.ok
    THEN Append(ps, Pool(Len(ps) + 1, c, tokenA, tokenB,
                         IF Legacy THEN "0" ELSE "Available", src))
    ELSE ps

\* Mutant: the candidate is dropped as soon as one request has failed.
AssembleOnFirstFailure ==
    /\ pc = "tokens"
    /\ \/ fetchA.st = "settled" /\ fetchB.st = "settled"
       \/ fetchA.st = "settled" /\ ~fetchA.tok.ok
       \/ fetchB.st = "settled" /\ ~fetchB.tok.ok
    /\ pools' = PushPool(pools, cand, fetchA.tok, fetchB.tok, idx)
    /\ fate' = Append(fate, Fate("fetched", fetchA.tok.ok, fetchB.tok.ok))
    /\ cand' = NoCandidate
    /\ fetchA' = Idle
    /\ fetchB' = Idle
    /\ idx' = idx + 1
    /\ pc' = "loop"
    /\ UNCHANGED <<op, settings, message, callback, conv, swap, logsReq,
                   requests, logs, shown, dataSource, result, callbacks,
                   poolsText>>

\* Promise.all resolved: the pool is pushed, or the failure is logged.
Assemble ==
    /\ pc = "tokens"
    /\ fetchA.st = "settled"
    /\ fetchB.st = "settled"
    /\ pools' = PushPool(pools, cand, fetchA.tok, fetchB.tok, idx)
    /\ fate' = Append(fate, Fate("fetched", fetchA.tok.ok, fetchB.tok.ok))
    /\ cand' = NoCandidate
    /\ fetchA' = Idle
    /\ fetchB' = Idle
    /\ idx' = idx + 1
    /\ pc' = "loop"
    /\ UNCHANGED <<op, settings, message, callback, conv, swap, logsReq,
                   requests, logs, shown, dataSource, result, callbacks,
                   poolsText>>

(***************************************************************************)
(* The handlers, after parsePoolCreationEvents returned.                   *)
(***************************************************************************)
\* Mutant: LIST_POOLS substitutes the built-in record, as src/src/plugin.ts.
ParseReturnsMock ==
    /\ pc = "loop"
    /\ op \in Ops
    /\ idx > Len(logs)
    /\ shown' = IF pools = <<>> THEN mockPoolsData ELSE pools
    /\ dataSource' = IF pools = <<>> THEN NoPoolsLabel(ApiUrl)
                     ELSE LiveLabel(ApiUrl, Len(pools))
    /\ pc' = "respond"
    /\ UNCHANGED <<op, settings, message, callback, conv, swap, logsReq,
                   requests, logs, idx, cand, fetchA, fetchB, pools, fate,
                   result, callbacks, poolsText>>

\* The loop is over; the handler names its data source.
ParseReturns ==
    /\ pc = "loop"
    /\ op \in Ops
    /\ idx > Len(logs)
    /\ IF Legacy
       THEN /\ shown' = IF pools = <<>> THEN mockPoolsData ELSE pools
            /\ dataSource' = IF pools = <<>> THEN NoPoolsLabel(ApiUrl)
                             ELSE LiveLabel(ApiUrl, Len(pools))
            /\ pc' = "respond"
            /\ UNCHANGED result
       ELSE IF pools = <<>>
       THEN /\ result' = Failure(NoPoolsFound)
            /\ pc' = "done"
            /\ UNCHANGED <<shown, dataSource>>
       ELSE /\ shown' = pools
            /\ dataSource' = LiveLabel(ApiUrl, Len(pools))
            /\ pc' = "respond"
            /\ UNCHANGED result
    /\ UNCHANGED <<op, settings, message, callback, conv, swap, logsReq,
                   requests, logs, idx, cand, fetchA, fetchB, pools, fate,
                   callbacks, poolsText>>

\* Mutant: the fee is divided by 1,000.
feeTierPerMille(fee) ==
    IF fee.k = "NaN" THEN [nan |-> TRUE, units |-> 0, decimals |-> <<0, 0>>]
    ELSE LET hundredths == (fee.lo + 5) \div 10
         IN [nan |-> FALSE, units |-> hundredths \div 100,
             decimals |-> <<(hundredths % 100) \div 10, hundredths % 10>>]

\* (pool.fee / 10_000.0).toFixed(2): the units and the two decimals of the
\* nearest hundredth, "NaN" for NaN.  A fee ending in 50 lies halfway
\* between two hundredths and is taken upwards here; fees are below 2^32.
FeeDivisor == 10000
feeTier(fee) ==
    IF fee.k = "NaN" THEN [nan |-> TRUE, units |-> 0, decimals |-> <<0, 0>>]
    ELSE LET hundredths == (fee.lo * 100 + FeeDivisor \div 2) \div FeeDivisor
         IN [nan |-> FALSE, units |-> hundredths \div 100,
             decimals |-> <<(hundredths % 100) \div 10, hundredths % 10>>]

\* The lines of one pool in the text: symbols, fee tier, contract id.
PoolLine(pool) ==
    [symbolA |-> pool.tokenA.symbol, symbolB |-> pool.tokenB.symbol,
     feeTier |-> feeTier(pool.fee), contractId |-> pool.contractId]
PoolLines(ps) == [k \in 1..Len(ps) |-> PoolLine(ps[k])]

SliceLimit ==
    IF op = "FETCH_ALL_POOLS" THEN ActionSliceLegacy
    ELSE IF op = "ROUTE_POOLS" THEN RouteSlice
    ELSE ActionSliceDex

\* Mutant: the callback is invoked for the text and once more for the data.
RespondCallbackTwice ==
    /\ pc = "respond"
    /\ op \in Ops
    /\ callbacks' = IF callback THEN callbacks + 2 ELSE callbacks
    /\ poolsText' = IF op = "ROUTE_POOLS" THEN poolsText
                    ELSE PoolLines(Slice(shown, 0, SliceLimit))
    /\ result' = Success(shown, SliceLimit, dataSource)
    /\ pc' = "done"
    /\ UNCHANGED <<op, settings, message, callback, conv, swap, logsReq,
                   requests, logs, idx, cand, fetchA, fetchB, pools, fate,
                   shown, dataSource>>

\* The text is formatted, the callback invoked (FETCH_ALL_POOLS always,
\* LIST_POOLS when one was passed, the route has none) and the result
\* returned.
Respond ==
    /\ pc = "respond"
    /\ op \in Ops
    /\ callbacks' = IF callback THEN callbacks + 1 ELSE callbacks
    /\ poolsText' = IF op = "ROUTE_POOLS" THEN poolsText
                    ELSE PoolLines(Slice(shown, 0, SliceLimit))
    /\ result' = Success(shown, SliceLimit, dataSource)
    /\ pc' = "done"
    /\ UNCHANGED <<op, settings, message, callback, conv, swap, logsReq,
                   requests, logs, idx, cand, fetchA, fetchB, pools, fate,
                   shown, dataSource>>

Next ==
    \/ UseDemoData
    \/ RejectConfiguration
    \/ RequestLogs
    \/ LogsRejected
    \/ LogsResolved
    \/ SkipEntry
    \/ DecodeFails
    \/ SkipInvalidIds
    \/ RequestTokens
    \/ SettleTokenA
    \/ SettleTokenB
    \/ Assemble
    \/ ParseReturns
    \/ Respond

Spec == Init /\ [][Next]_vars

(***************************************************************************)
(* parsePoolCreationEvents on its own: the handler has issued the log      *)
(* request on testnet and the mirror node has answered with any batch.     *)
(***************************************************************************)
ParseSettings == [network |-> "testnet", override |-> "", demo |-> FALSE]

InitParse ==
    /\ op \in {"FETCH_ALL_POOLS", "LIST_POOLS"}
    /\ settings = ParseSettings
    /\ message = NoMessage
    /\ callback = TRUE
    /\ swap = NoSwap
    /\ conv = NoConversion
    /\ pc = "loop"
    /\ requests = <<LogsRequest(TestnetUrl, "0.0.1197038",
                       IF op = "LIST_POOLS" THEN DexLogLimit ELSE LegacyLogLimit)>>
    /\ logsReq = "resolved"
    /\ logs \in Batches
    /\ idx = 1
    /\ cand = NoCandidate
    /\ fetchA = Idle
    /\ fetchB = Idle
    /\ pools = <<>>
    /\ fate = <<>>
    /\ shown = <<>>
    /\ dataSource = NoLabel
    /\ result = NoResult
    /\ callbacks = 0
    /\ poolsText = <<>>

NextParse ==
    \/ SkipEntry
    \/ DecodeFails
    \/ SkipInvalidIds
    \/ RequestTokens
    \/ SettleTokenA
    \/ SettleTokenB
    \/ Assemble
    \/ ParseReturns
    \/ Respond

SpecParse == InitParse /\ [][NextParse]_vars

(***************************************************************************)
(* GET_POOL_INFO of plugin-hedera-dex: the pools of one token pair.        *)
(***************************************************************************)
\* Number of letters of a word made of letters only; 0 for any other word.
Letters(w) ==
    IF w \in {"WHBAR", "whbar", "TOKEN"} THEN 5
    ELSE IF w \in {"USDC", "usdc", "Usdc", "TKNC", "FAKE"} THEN 4
    ELSE IF w = "UNKNOWN" THEN 7
    ELSE IF w = "X" THEN 1
    ELSE IF w = "HEDERATOKENS" THEN 12
    ELSE 0

\* String.prototype.toUpperCase on the words and symbols of the model.
toUpperCase(w) ==
    IF w = "whbar" THEN "WHBAR"
    ELSE IF w = "hbar" THEN "HBAR"
    ELSE IF w \in {"usdc", "Usdc"} THEN "USDC"
    ELSE w

\* /\b([a-z]{2,10})\/([a-z]{2,10})\b/i or
\* /\b([a-z]{2,10})\s+(?:and|with)\s+([a-z]{2,10})\b/i matches the text.
MinSymbolLetters == 2
MaxSymbolLetters == 10
tokenPairMatch(m) ==
    /\ m.form \in {"slash", "and", "with"}
    /\ Letters(m.a) \in MinSymbolLetters..MaxSymbolLetters
    /\ Letters(m.b) \in MinSymbolLetters..MaxSymbolLetters

normalizedToken0 == toUpperCase(message.a)
normalizedToken1 == toUpperCase(message.b)

\* Mutant: the pair is matched in the order of the request only.
matchingPoolsOrdered(allPools, token0, token1) ==
    SelectSeq(allPools, LAMBDA pool :
        /\ toUpperCase(pool.tokenA.symbol) = token0
        /\ toUpperCase(pool.tokenB.symbol) = token1)

\* Mutant: of the pools of the pair, one per contract id is kept.
matchingPoolsDistinct(allPools, token0, token1) ==
    LET Match(pool) ==
            \/ /\ toUpperCase(pool.tokenA.symbol) = token0
               /\ toUpperCase(pool.tokenB.symbol) = token1
            \/ /\ toUpperCase(pool.tokenA.symbol) = token1
               /\ toUpperCase(pool.tokenB.symbol) = token0
        F[n \in 0..Len(allPools)] ==
            IF n = 0 THEN <<>>
            ELSE IF /\ Match(allPools[n])
                    /\ \A j \in 1..(n - 1) :
                         allPools[j].contractId # allPools[n].contractId
            THEN Append(F[n - 1], allPools[n])
            ELSE F[n - 1]
    IN F[Len(allPools)]

\* allPools.filter(...): the pools of the pair, in either order.
matchingPools(allPools, token0, token1) ==
    SelectSeq(allPools, LAMBDA pool :
        LET poolToken0 == toUpperCase(pool.tokenA.symbol)
            poolToken1 == toUpperCase(pool.tokenB.symbol)
        IN \/ poolToken0 = token0 /\ poolToken1 = token1
           \/ poolToken0 = token1 /\ poolToken1 = token0)

\* Array.prototype.sort() compares UTF-16 code units: the place of each
\* symbol of the model in that order.
SortRank(symbol) ==
    IF symbol = "TKNC" THEN 1
    ELSE IF symbol = "UNKNOWN" THEN 2
    ELSE IF symbol = "USDC" THEN 3
    ELSE IF symbol = "WHBAR" THEN 4
    ELSE IF symbol = "usdc" THEN 5
    ELSE 6

RECURSIVE Sorted(_)
Sorted(set) ==
    IF set = {} THEN <<>>
    ELSE LET first == CHOOSE x \in set : \A y \in set : SortRank(x) <= SortRank(y)
         IN <<first>> \o Sorted(set \ {first})

\* [...new Set(allPools.flatMap(p => [p.tokenA.symbol, p.tokenB.symbol]))].sort()
availableTokens(allPools) ==
    Sorted({allPools[k].tokenA.symbol : k \in 1..Len(allPools)}
           \cup {allPools[k].tokenB.symbol : k \in 1..Len(allPools)})

\* Symbols listed in the message: availableTokens.slice(0, 20).
AvailableLimit == 20
FindLogLimit == 100

NoTextContent == <<"No", "text", "content", "found", "in", "message">>
CouldNotExtract ==
    <<"Could", "not", "extract", "token", "pair", "from", "message">>
\* `No pools found for A/B. Available tokens: ...` and "..." past the limit.
NoPoolsFoundFor(token0, token1, available) ==
    <<"No", "pools", "found", "for", token0, token1, "Available", "tokens:">>
    \o Slice(available, 0, AvailableLimit)
    \o (IF Len(available) > AvailableLimit THEN <<"...">> ELSE <<>>)
FindFailedText == <<"Failed", "to", "get", "pool", "information:">>
FindSuccessText == <<"Found", "pool(s)", "for">>

\* The results of GET_POOL_INFO: the return statement and the catch block.
FindSuccess(ps, token0, token1, url) ==
    [returned |-> TRUE, success |-> TRUE, pools |-> ps, poolCount |-> Len(ps),
     tokenPair |-> <<token0, token1>>,
     dataSource |-> Label(<<"Hedera", "Mirror", "Node">>, url, 0),
     error |-> "", message |-> <<>>,
     text |-> FindSuccessText \o <<token0, token1>>]
FindFailure(errorMessage) ==
    [returned |-> TRUE, success |-> FALSE, pools |-> <<>>, poolCount |-> 0,
     tokenPair |-> <<>>, dataSource |-> NoLabel,
     error |-> "GET_POOL_INFO_FAILED", message |-> errorMessage,
     text |-> FindFailedText \o errorMessage]

\* The text is empty, names no pair, or the configuration is incomplete:
\* the throw lands in the catch block before any request.
FindRejectRequest ==
    /\ pc = "start"
    /\ op = "GET_POOL_INFO"
    /\ \/ message.form = "empty"
       \/ ~tokenPairMatch(message)
       \/ ApiUrl = ""
       \/ FactoryContract = ""
    /\ result' = FindFailure(
                    IF message.form = "empty" THEN NoTextContent
                    ELSE IF ~tokenPairMatch(message) THEN CouldNotExtract
                    ELSE IF ApiUrl = "" THEN UnsupportedNetwork
                    ELSE FactoryNotFound)
    /\ pc' = "done"
    /\ UNCHANGED <<op, settings, message, callback, conv, swap, logsReq,
                   requests, logs, idx, cand, fetchA, fetchB, pools, fate,
                   shown, dataSource, callbacks, poolsText>>

\* axios.get of the factory contract's logs is issued.
FindRequestLogs ==
    /\ pc = "start"
    /\ op = "GET_POOL_INFO"
    /\ message.form # "empty"
    /\ tokenPairMatch(message)
    /\ ApiUrl # ""
    /\ FactoryContract # ""
    /\ requests' = Append(requests,
                     LogsRequest(ApiUrl, FactoryContract, FindLogLimit))
    /\ logsReq' = "pending"
    /\ pc' = "fetchLogs"
    /\ UNCHANGED <<op, settings, message, callback, conv, swap, logs, idx,
                   cand, fetchA, fetchB, pools, fate, shown, dataSource,
                   result, callbacks, poolsText>>

\* Mutant: a failed log request is answered with the built-in record.
FindLogsRejectedMock ==
    /\ pc = "fetchLogs"
    /\ op = "GET_POOL_INFO"
    /\ logsReq' = "rejected"
    /\ shown' = mockPoolsData
    /\ pc' = "respond"
    /\ UNCHANGED <<op, settings, message, callback, conv, swap, requests,
                   logs, idx, cand, fetchA, fetchB, pools, fate, dataSource,
                   result, callbacks, poolsText>>

\* The log request fails: the rejection lands in the catch block.
FindLogsRejected ==
    /\ pc = "fetchLogs"
    /\ op = "GET_POOL_INFO"
    /\ logsReq' = "rejected"
    /\ result' = FindFailure(NetworkError)
    /\ pc' = "done"
    /\ UNCHANGED <<op, settings, message, callback, conv, swap, requests,
                   logs, idx, cand, fetchA, fetchB, pools, fate, shown,
                   dataSource, callbacks, poolsText>>

\* The log request resolves and parsePoolCreationEvents starts.
FindLogsResolved ==
    /\ pc = "fetchLogs"
    /\ op = "GET_POOL_INFO"
    /\ \E batch \in FindBatches : logs' = batch
    /\ logsReq' = "resolved"
    /\ idx' = 1
    /\ pc' = "loop"
    /\ UNCHANGED <<op, settings, message, callback, conv, swap, requests,
                   cand, fetchA, fetchB, pools, fate, shown, dataSource,
                   result, callbacks, poolsText>>

\* parsePoolCreationEvents returned: the pools of the pair are kept, or the
\* handler throws with the symbols of all pools.
FindFilter ==
    /\ pc = "loop"
    /\ op = "GET_POOL_INFO"
    /\ idx > Len(logs)
    /\ LET matching == matchingPools(pools, normalizedToken0, normalizedToken1)
       IN IF matching = <<>>
          THEN /\ result' = FindFailure(
                               NoPoolsFoundFor(normalizedToken0,
                                               normalizedToken1,
                                               availableTokens(pools)))
               /\ pc' = "done"
               /\ UNCHANGED shown
          ELSE /\ shown' = matching
               /\ pc' = "respond"
               /\ UNCHANGED result
    /\ UNCHANGED <<op, settings, message, callback, conv, swap, logsReq,
                   requests, logs, idx, cand, fetchA, fetchB, pools, fate,
                   dataSource, callbacks, poolsText>>

\* The text is formatted, the callback invoked when one was passed, and the
\* result returned.
FindRespond ==
    /\ pc = "respond"
    /\ op = "GET_POOL_INFO"
    /\ callbacks' = IF callback THEN callbacks + 1 ELSE callbacks
    /\ poolsText' = PoolLines(shown)
    /\ result' = FindSuccess(shown, normalizedToken0, normalizedToken1, ApiUrl)
    /\ pc' = "done"
    /\ UNCHANGED <<op, settings, message, callback, conv, swap, logsReq,
                   requests, logs, idx, cand, fetchA, fetchB, pools, fate,
                   shown, dataSource>>

\* The messages and settings GET_POOL_INFO is run with.
Messages ==
    {Message("slash", "WHBAR", "USDC"), Message("slash", "USDC", "WHBAR"),
     Message("slash", "whbar", "Usdc"), Message("and", "WHBAR", "USDC"),
     Message("with", "usdc", "WHBAR"), Message("slash", "FAKE", "TOKEN"),
     Message("slash", "TKNC", "UNKNOWN"), Message("slash", "WHBAR", "TKNC"),
     Message("slash", "X", "USDC"), Message("and", "HEDERATOKENS", "USDC"),
     Message("none", "", ""), NoMessage}
FindSettings ==
    {[network |-> "mainnet", override |-> "", demo |-> FALSE],
     [network |-> "devnet", override |-> "", demo |-> FALSE],
     [network |-> "previewnet", override |-> CustomUrl, demo |-> FALSE]}

InitFind ==
    /\ op = "GET_POOL_INFO"
    /\ settings \in FindSettings
    /\ message \in Messages
    /\ callback \in CallbackPassed(op)
    /\ swap = NoSwap
    /\ conv = NoConversion
    /\ pc = "start"
    /\ requests = <<>>
    /\ logsReq = "idle"
    /\ logs = <<>>
    /\ idx = 0
    /\ cand = NoCandidate
    /\ fetchA = Idle
    /\ fetchB = Idle
    /\ pools = <<>>
    /\ fate = <<>>
    /\ shown = <<>>
    /\ dataSource = NoLabel
    /\ result = NoResult
    /\ callbacks = 0
    /\ poolsText = <<>>

NextFind ==
    \/ FindRejectRequest
    \/ FindRequestLogs
    \/ FindLogsRejected
    \/ FindLogsResolved
    \/ SkipEntry
    \/ DecodeFails
    \/ SkipInvalidIds
    \/ RequestTokens
    \/ SettleTokenA
    \/ SettleTokenB
    \/ Assemble
    \/ FindFilter
    \/ FindRespond

SpecFind == InitFind /\ [][NextFind]_vars

(***************************************************************************)
(* extractPoolContractId on its own: one pool-created entry of plugin-     *)
(* hedera-dex whose tokens are any two entity numbers up to MaxTokenNum.   *)
(***************************************************************************)
TokenNums == 1..MaxTokenNum
PairEntry(a, b) == PoolCreated(Word(0, a), Word(0, b), 3000, TestData)

InitPoolId ==
    /\ op = "LIST_POOLS"
    /\ settings = ParseSettings
    /\ message = NoMessage
    /\ callback = TRUE
    /\ swap = NoSwap
    /\ conv = NoConversion
    /\ pc = "decode"
    /\ requests = <<LogsRequest(TestnetUrl, "0.0.1197038", DexLogLimit)>>
    /\ logsReq = "resolved"
    /\ \E a \in TokenNums, b \in TokenNums : logs = <<PairEntry(a, b)>>
    /\ idx = 1
    /\ cand = NoCandidate
    /\ fetchA = Idle
    /\ fetchB = Idle
    /\ pools = <<>>
    /\ fate = <<>>
    /\ shown = <<>>
    /\ dataSource = NoLabel
    /\ result = NoResult
    /\ callbacks = 0
    /\ poolsText = <<>>

\* token0Id, token1Id, fee and poolId of the entry are computed.
DecodeEntry ==
    /\ pc = "decode"
    /\ IsPoolCreationEvent(Log)
    /\ ~DecodeThrows(Log)
    /\ cand' = Candidate(Log)
    /\ pc' = "decoded"
    /\ UNCHANGED <<op, settings, message, callback, conv, swap, logsReq,
                   requests, logs, idx, fetchA, fetchB, pools, fate, shown,
                   dataSource, result, callbacks, poolsText>>

NextPoolId == DecodeEntry

SpecPoolId == InitPoolId /\ [][NextPoolId]_vars

(***************************************************************************)
(* Properties.                                                             *)
(***************************************************************************)
\* The pool records decoded from log entry i.
RecordsFrom(i) == {k \in 1..Len(pools) : pools[k].src = i}

\* The first topic of the entry is not the pool-created signature, or the
\* entry has fewer than four topics (none at all included).
NotAPoolCreatedEntry(log) ==
    \/ log.topics.k # "array"
    \/ Len(log.topics.v) < 4
    \/ log.topics.v[1] # POOL_CREATED_TOPIC

\* C1: a log entry whose first topic is not the pool-created signature, or
\* that has fewer than four topics, is passed over in one step that issues
\* no request and pushes no pool, the loop going on with the next entry;
\* and no pool record ever stems from such an entry.
C1_NonPoolEntriesSkipped ==
    /\ [][(InLoop /\ NotAPoolCreatedEntry(Log))
            => /\ requests' = requests
               /\ pools' = pools
               /\ pc' = "loop"
               /\ idx' = idx + 1
               /\ result' = result]_vars
    /\ [](\A k \in 1..Len(pools) : ~NotAPoolCreatedEntry(logs[pools[k].src]))

\* A batch whose first entry was passed over and whose second gave a pool.
C1_Witness ==
    /\ Len(logs) = 2
    /\ NotAPoolCreatedEntry(logs[1])
    /\ Len(fate) = 2
    /\ fate[1].step = "skipped"
    /\ Len(pools) = 1
    /\ requests = <<requests[1], TokenRequest(ApiUrl, pools[1].tokenA.id),
                    TokenRequest(ApiUrl, pools[1].tokenB.id)>>

\* The unsigned value of the last 4 bytes of a topic.
LastFourBytes(topic) == ParseDigits(SliceLast(topic.v, 8), 0)

\* What C2 says hexToHederaId returns for a topic.
C2_Expected(topic) ==
    IF LastFourBytes(topic) = 0 \/ LastFourBytes(topic) > 100000000
    THEN NumOf(0)
    ELSE NumOf(LastFourBytes(topic))

\* The entries the loop has decoded so far (the one whose tokens are being
\* fetched included).
Decoded == (1..Len(fate)) \cup (IF pc = "tokens" THEN {idx} ELSE {})

\* C2: for every topic, hexToHederaId returns '0.0.0' when the last 4
\* bytes N are 0 or above 100,000,000, and '0.0.N' otherwise.  Stated of
\* the two token topics of every pool-created entry the loop has decoded,
\* and of the candidate it keeps while the tokens are fetched.
C2_HexToHederaId ==
    /\ \A i \in Decoded :
         (IsPoolCreationEvent(logs[i]) /\ ~DecodeThrows(logs[i])
             /\ IsString(TopicAt(logs[i], 1)) /\ IsString(TopicAt(logs[i], 2)))
         => /\ Candidate(logs[i]).token0Id = C2_Expected(TopicAt(logs[i], 1))
            /\ Candidate(logs[i]).token1Id = C2_Expected(TopicAt(logs[i], 2))
    /\ pc = "tokens" => cand = Candidate(Log)

\* C2 restricted to the hexToHederaId of plugin-hedera-dex, where it holds.
C2_HexToHederaIdDex == Legacy \/ C2_HexToHederaId

\* The dex decoder at a topic with a set high byte, and at one above the limit.
C2_WitnessDex ==
    /\ ~Legacy
    /\ Len(fate) = 2
    /\ logs[1] = EntryHighBytes
    /\ logs[2] = EntryTooLarge
    /\ fate[2].step = "invalid"

\* The entry is a pool-created one and the low 4 bytes of its token0 or
\* token1 topic are 0.
HasZeroToken(log) ==
    /\ ~NotAPoolCreatedEntry(log)
    /\ \/ IsString(TopicAt(log, 1)) /\ LastFourBytes(TopicAt(log, 1)) = 0
       \/ IsString(TopicAt(log, 2)) /\ LastFourBytes(TopicAt(log, 2)) = 0

\* C3: a pool-created entry whose token0 or token1 decodes to entity
\* number 0 gets no token request and no pool record.
C3_ZeroTokenDropped ==
    \A i \in 1..Len(logs) :
        HasZeroToken(logs[i])
        => /\ RecordsFrom(i) = {}
           /\ ~(pc = "tokens" /\ idx = i)
           /\ i <= Len(fate) => fate[i].step # "fetched"

\* C3 restricted to plugin-hedera-dex, where it holds.
C3_ZeroTokenDroppedDex == Legacy \/ C3_ZeroTokenDropped

C3_WitnessDex ==
    /\ ~Legacy
    /\ Len(fate) = 2
    /\ HasZeroToken(logs[1])
    /\ fate[1].step = "invalid"
    /\ Len(pools) = 1

\* What parsePoolCreationEvents does with an entry, by the entry alone.
ExpectedStep(log) ==
    IF NotAPoolCreatedEntry(log) THEN "skipped"
    ELSE IF DecodeThrows(log) THEN "threw"
    ELSE IF Rejected(Candidate(log)) THEN "invalid"
    ELSE "fetched"

\* The record of entry i when both its token requests resolve, as the
\* id-th record.
RecordOf(i, id) ==
    LET c == Candidate(logs[i])
    IN  Pool(id, c, fetchTokenInfo(c.token0Id, TRUE),
             fetchTokenInfo(c.token1Id, TRUE),
             IF Legacy THEN "0" ELSE "Available", i)

RECURSIVE RecordsOfGoodEntries(_)
\* The records of the entries among the first n whose two token requests
\* resolved, numbered as if those entries were the whole batch.
RecordsOfGoodEntries(n) ==
    IF n = 0 THEN <<>>
    ELSE LET before == RecordsOfGoodEntries(n - 1)
         IN  IF fate[n] = Fate("fetched", TRUE, TRUE)
             THEN Append(before, RecordOf(n, Len(before) + 1))
             ELSE before

\* C4: parsePoolCreationEvents is resilient per entry: what is done with an
\* entry depends on that entry alone; the function returns only after every
\* entry of the batch was processed (an invalid, throwing or unfetched entry
\* stops nothing and nothing is raised); and the records are those of the
\* entries whose tokens were fetched, as if the other entries were absent.
C4_ResilientPerEntry ==
    /\ \A i \in 1..Len(fate) : fate[i].step = ExpectedStep(logs[i])
    /\ pc \notin {"loop", "tokens"} => Len(fate) = Len(logs)
    /\ pools = RecordsOfGoodEntries(Len(fate))

\* The first entry threw while decoded, the second gave a record.
C4_Witness ==
    /\ pc = "done"
    /\ Len(logs) = 2
    /\ fate[1].step = "threw"
    /\ fate[2] = Fate("fetched", TRUE, TRUE)
    /\ Len(pools) = 1

\* The first entry's token1 fetch failed, the second gave a record.
C4_WitnessFetchFailed ==
    /\ pc = "done"
    /\ Len(logs) = 2
    /\ fate[1] = Fate("fetched", TRUE, FALSE)
    /\ Len(pools) = 1
    /\ pools[1].src = 2

\* C5: the records are in the order of their log entries.
C5_InputOrder ==
    \A j, k \in 1..Len(pools) : j < k => pools[j].src < pools[k].src

\* Two records from a batch of two.
C5_Witness ==
    /\ Len(pools) = 2
    /\ pools[1].src = 1
    /\ pools[2].src = 2
    /\ pools[1].tokenA.id # pools[2].tokenA.id

\* C6: a record is emitted for an entry exactly when both its token
\* fetches succeeded, and no record has a null token.
C6_BothTokensFetched ==
    /\ \A i \in 1..Len(fate) :
         (RecordsFrom(i) # {}) <=> (fate[i] = Fate("fetched", TRUE, TRUE))
    /\ \A i \in 1..Len(fate) : Cardinality(RecordsFrom(i)) <= 1
    /\ \A k \in 1..Len(pools) : pools[k].tokenA.ok /\ pools[k].tokenB.ok

\* token0's fetch succeeded and token1's failed for the first entry (no
\* record), both succeeded for the second.
C6_Witness ==
    /\ Len(fate) = 2
    /\ fate[1] = Fate("fetched", TRUE, FALSE)
    /\ fate[2] = Fate("fetched", TRUE, TRUE)
    /\ RecordsFrom(1) = {}
    /\ RecordsFrom(2) = {1}

\* C7: the record at output position k has id k.
C7_SequentialIds ==
    \A k \in 1..Len(pools) : pools[k].id = k

\* The only record stems from the second entry and has id 1.
C7_Witness ==
    /\ Len(pools) = 1
    /\ pools[1].src = 2
    /\ pools[1].id = 1

\* C8: tokenA.id and tokenB.id differ in every record.
C8_DistinctTokens ==
    \A k \in 1..Len(pools) : pools[k].tokenA.id # pools[k].tokenB.id

\* The label holds the word w.
HasWord(label, w) == \E i \in 1..Len(label.words) : label.words[i] = w

\* The network has no known factory contract.
NoKnownFactory == Network \notin {"mainnet", "testnet"}

\* C9: with the demo flag set, or for a network with no known factory
\* contract, no request is ever issued and the result is the built-in demo
\* dataset with a label marking it as demo.
C9_DemoWithoutRequests ==
    (settings.demo \/ NoKnownFactory)
    => /\ requests = <<>>
       /\ pc = "done" => /\ result.returned
                         /\ result.success
                         /\ result.pools = mockPoolsData
                         /\ HasWord(result.dataSource, "Demo")

\* C9 restricted to FETCH_ALL_POOLS and the /pools route of src/src/plugin.ts,
\* where it holds.
C9_DemoWithoutRequestsLegacy == ~Legacy \/ C9_DemoWithoutRequests

C9_WitnessLegacy ==
    /\ Legacy
    /\ pc = "done"
    /\ ~settings.demo
    /\ Network = "previewnet"
    /\ result.pools = mockPoolsData

\* The log request failed, or the batch decoded to no pool.
NothingDecoded ==
    \/ logsReq = "rejected"
    \/ logsReq = "resolved" /\ pools = <<>>

\* C10: FETCH_ALL_POOLS and the /pools route of src/src/plugin.ts always end
\* with a successful, non-empty result; when the log request failed or no
\* pool was decoded, it is the demo dataset and its label holds the word
\* "error" or "mock".
C10_FallbackToDemoData ==
    (Legacy /\ pc = "done")
    => /\ result.returned
       /\ result.success
       /\ result.pools # <<>>
       /\ result.totalPools > 0
       /\ NothingDecoded
          => /\ result.pools = mockPoolsData
             /\ \/ HasWord(result.dataSource, "error")
                \/ HasWord(result.dataSource, "mock")

\* The log request of the action failed and the handler returned.
C10_Witness ==
    /\ op = "FETCH_ALL_POOLS"
    /\ pc = "done"
    /\ logsReq = "rejected"
    /\ result.success
    /\ callbacks = 1

\* The batch of the route decoded to no pool and the handler answered.
C10_WitnessNoPools ==
    /\ op = "ROUTE_POOLS"
    /\ pc = "done"
    /\ logsReq = "resolved"
    /\ Len(logs) = 2
    /\ pools = <<>>
    /\ result.success

StartsWith(text, prefix) ==
    /\ Len(text) >= Len(prefix)
    /\ SubSeq(text, 1, Len(prefix)) = prefix

\* Record p is what plugin-hedera-dex makes of a log entry of the batch whose
\* two tokens were fetched.
FromFetchedEntry(p) ==
    /\ p.src \in 1..Len(fate)
    /\ fate[p.src] = Fate("fetched", TRUE, TRUE)
    /\ LET c == CandidateDex(logs[p.src])
       IN /\ p.contractId = c.poolId
          /\ p.fee = c.fee
          /\ p.tokenA = TokenInfoDex(c.token0Id, TokenPayload(c.token0Id))
          /\ p.tokenB = TokenInfoDex(c.token1Id, TokenPayload(c.token1Id))

C11_WitnessSuccess ==
    /\ op = "LIST_POOLS"
    /\ pc = "done"
    /\ result.success
    /\ Len(result.pools) = 1
    /\ result.pools[1].src = 2

\* The configured network has no entry in the table of contracts.
ConfigurationError == Network \notin {"mainnet", "testnet"}

\* C12: with a network that is unsupported or has no factory contract (and
\* DEMO_MODE not asked for), the handler returns a failure without having issued a request: no default
\* network or URL and no built-in data takes the place of the error.
C12_ConfigErrorSurfaced ==
    (pc = "done" /\ ConfigurationError /\ (Legacy => ~settings.demo))
    => /\ result.returned
       /\ ~result.success
       /\ result.pools = <<>>
       /\ requests = <<>>

\* The same for LIST_POOLS of plugin-hedera-dex alone.
C12_ConfigErrorSurfacedDex == Legacy \/ C12_ConfigErrorSurfaced

\* LIST_POOLS on previewnet with a mirror node URL configured: the missing
\* factory contract is reported.
C12_WitnessDex ==
    /\ op = "LIST_POOLS"
    /\ Network = "previewnet"
    /\ settings.override = CustomUrl
    /\ pc = "done"
    /\ result.message = FactoryNotFound

\* The elements of ps at the positions of keep, in the order of ps.
PoolsAt(ps, keep) ==
    LET F[n \in 0..Len(ps)] ==
            IF n = 0 THEN <<>>
            ELSE IF n \in keep THEN Append(F[n - 1], ps[n])
            ELSE F[n - 1]
    IN F[Len(ps)]

\* The decoded records whose symbols, upper-cased, are the two symbols of
\* the pair a and b as a set.
PairRecords(a, b) ==
    {k \in 1..Len(pools) :
        {toUpperCase(pools[k].tokenA.symbol),
         toUpperCase(pools[k].tokenB.symbol)}
        = {toUpperCase(a), toUpperCase(b)}}

\* C13: once GET_POOL_INFO has decoded the batch and returned, the pools of
\* its result are exactly the decoded records whose unordered pair of
\* symbols is the requested pair, letter case ignored, in decoding order;
\* the same request with the two symbols exchanged selects the same pools.
C13_FindPoolUnorderedPair ==
    (op = "GET_POOL_INFO" /\ pc = "done" /\ logsReq = "resolved")
    => /\ result.pools = PoolsAt(pools, PairRecords(message.a, message.b))
       /\ result.success <=> PairRecords(message.a, message.b) # {}
       /\ result.pools
          = matchingPools(pools, toUpperCase(message.b), toUpperCase(message.a))

\* "whbar/Usdc" was asked for; of two decoded pools the one returned is
\* USDC/WHBAR, the other has another pair.
C13_Witness ==
    /\ op = "GET_POOL_INFO"
    /\ pc = "done"
    /\ message = Message("slash", "whbar", "Usdc")
    /\ Len(pools) = 2
    /\ result.success
    /\ Len(result.pools) = 1
    /\ result.pools[1].tokenA.symbol = "USDC"
    /\ result.pools[1].tokenB.symbol = "WHBAR"

\* The symbols of all decoded pools.
ObservedSymbols ==
    {pools[k].tokenA.symbol : k \in 1..Len(pools)}
    \cup {pools[k].tokenB.symbol : k \in 1..Len(pools)}

\* list holds each observed symbol once, in ascending code-unit order, or
\* the first AvailableLimit of them followed by "...".
ListsObservedSymbols(list) ==
    LET n == Cardinality(ObservedSymbols)
        shownN == IF n > AvailableLimit THEN AvailableLimit ELSE n
    IN /\ Len(list) = shownN + (IF n > AvailableLimit THEN 1 ELSE 0)
       /\ \A i \in 1..shownN : list[i] \in ObservedSymbols
       /\ \A i \in 1..shownN : \A j \in 1..shownN :
             i < j => SortRank(list[i]) < SortRank(list[j])
       /\ n > AvailableLimit => list[Len(list)] = "..."

NotFoundPrefix(token0, token1) ==
    <<"No", "pools", "found", "for", token0, token1, "Available", "tokens:">>

\* C14 as first stated: every failure of GET_POOL_INFO after its log request
\* was issued, a failed log request included, is a "not found" result with
\* the symbols observed in the decode.
C14_FailureCarriesSymbols ==
    (op = "GET_POOL_INFO" /\ pc = "done" /\ logsReq \in {"rejected", "resolved"}
     /\ ~result.success)
    => /\ StartsWith(result.message,
                     NotFoundPrefix(normalizedToken0, normalizedToken1))
       /\ ListsObservedSymbols(
             SubSeq(result.message, 9, Len(result.message)))

\* C14: GET_POOL_INFO never answers with built-in data: the pools of a
\* result were decoded from fetched entries of the batch.  Every failure
\* has success false, the tag GET_POOL_INFO_FAILED, no pools and a text
\* starting "Failed to get pool information:".  When the batch was decoded
\* and no pool matches, the message is "No pools found for A/B. Available
\* tokens:" followed by the distinct symbols of all decoded pools in sorted
\* order (the first 20).  When the log request failed nothing was decoded:
\* the message is the error of the request and lists no symbol.
C14_NotFoundWithoutFallback ==
    (op = "GET_POOL_INFO" /\ pc = "done")
    => /\ result.returned
       /\ \A k \in 1..Len(result.pools) : FromFetchedEntry(result.pools[k])
       /\ ~result.success
          => /\ result.error = "GET_POOL_INFO_FAILED"
             /\ result.pools = <<>>
             /\ StartsWith(result.text, FindFailedText)
       /\ logsReq = "rejected"
          => /\ ~result.success
             /\ result.message = NetworkError
             /\ pools = <<>>
       /\ (logsReq = "resolved" /\ PairRecords(message.a, message.b) = {})
          => /\ ~result.success
             /\ StartsWith(result.message,
                           NotFoundPrefix(normalizedToken0, normalizedToken1))
             /\ ListsObservedSymbols(
                   SubSeq(result.message, 9, Len(result.message)))

\* Two pools were decoded, none of the pair asked for; the failure lists
\* their four symbols.
C14_Witness ==
    /\ op = "GET_POOL_INFO"
    /\ pc = "done"
    /\ logsReq = "resolved"
    /\ Len(pools) = 2
    /\ ~result.success
    /\ Len(result.message) = 12
    /\ SubSeq(result.message, 9, 12) = <<"TKNC", "UNKNOWN", "WHBAR", "usdc">>

\* The log request failed and the handler returned.
C14_WitnessRejected ==
    /\ op = "GET_POOL_INFO"
    /\ pc = "done"
    /\ logsReq = "rejected"
    /\ ~result.success

\* C15: GET_POOL_INFO keeps one record per matching pool-created entry and
\* does not merge entries of the same pair: for a batch of two entries of
\* the pair WHBAR/USDC with fees 3000 and 500, both with their tokens
\* fetched, a request for that pair returns exactly two records, in log
\* order, with fees 3000 and 500.
C15_NoDeduplication ==
    (/\ op = "GET_POOL_INFO"
     /\ pc = "done"
     /\ Len(logs) = 2
     /\ logs[1] = EntryPair3000
     /\ logs[2] \in {EntryPair500, EntrySamePair500}
     /\ Len(fate) = 2
     /\ fate[1] = Fate("fetched", TRUE, TRUE)
     /\ fate[2] = Fate("fetched", TRUE, TRUE)
     /\ {normalizedToken0, normalizedToken1} = {"WHBAR", "USDC"})
    => /\ result.success
       /\ result.poolCount = 2
       /\ Len(result.pools) = 2
       /\ result.pools[1].src = 1
       /\ result.pools[1].fee = NumOf(3000)
       /\ result.pools[2].src = 2
       /\ result.pools[2].fee = NumOf(500)

\* The two entries name the tokens in the same order, so the two records
\* have the same contract id; "WHBAR and USDC" was asked for.
C15_Witness ==
    /\ op = "GET_POOL_INFO"
    /\ pc = "done"
    /\ message = Message("and", "WHBAR", "USDC")
    /\ logs = <<EntryPair3000, EntrySamePair500>>
    /\ Len(result.pools) = 2
    /\ result.pools[1].contractId = result.pools[2].contractId
    /\ result.pools[2].fee = NumOf(500)

\* C16: the pool id extractPoolContractId computes for a pair of entity
\* numbers is the same whenever it is computed for that pair, in either
\* order, and no other unordered pair of entity numbers up to MaxTokenNum
\* gets the same id.
C16_SyntheticIdInjective ==
    pc = "decoded"
    => \A a \in TokenNums, b \in TokenNums :
         IF {NumOf(a), NumOf(b)} = {cand.token0Id, cand.token1Id}
         THEN extractPoolContractId(NumOf(a), NumOf(b)) = cand.poolId
         ELSE extractPoolContractId(NumOf(a), NumOf(b)) # cand.poolId

\* The part of C16 that holds: the id is a function of the unordered pair.
C16_SyntheticIdDeterministic ==
    pc = "decoded"
    => /\ cand.poolId = extractPoolContractId(cand.token0Id, cand.token1Id)
       /\ cand.poolId = extractPoolContractId(cand.token1Id, cand.token0Id)
       /\ cand.poolId
          = NumOf(cand.token0Id.lo + cand.token1Id.lo + SyntheticPoolOffset)

\* The pair 0.0.1 / 0.0.4 was decoded to the id 0.0.1000005, which is
\* also the id of the pair 0.0.2 / 0.0.3.
C16_WitnessCollision ==
    /\ pc = "decoded"
    /\ cand.token0Id = NumOf(1)
    /\ cand.token1Id = NumOf(4)
    /\ cand.poolId = NumOf(1000005)
    /\ extractPoolContractId(NumOf(2), NumOf(3)) = cand.poolId

\* The fee tier as the text shows it: units and two decimals.
Shown(units, tens, ones) ==
    [nan |-> FALSE, units |-> units, decimals |-> <<tens, ones>>]

\* C17: the fee of every record decoded from a log entry is the unsigned
\* value of topic[3] of that entry, and the line of the record in the text
\* shows fee / 10,000 with two decimals: 0.30 for 3000, 0.05 for 500.
C17_FeeAndFeeTier ==
    (pc = "done" /\ result.success)
    => /\ Len(poolsText) = Len(result.pools)
       /\ \A k \in 1..Len(result.pools) :
            LET p == result.pools[k]
                line == poolsText[k].feeTier
            IN /\ p.src >= 1
                  => p.fee = NumOf(LastFourBytes(TopicAt(logs[p.src], 3)))
               /\ ~line.nan
               /\ line.decimals[1] \in 0..9
               /\ line.decimals[2] \in 0..9
               /\ (line.units * 100 + line.decimals[1] * 10 + line.decimals[2])
                  * 100 = p.fee.lo
               /\ p.fee = NumOf(3000) => line = Shown(0, 3, 0)
               /\ p.fee = NumOf(500) => line = Shown(0, 0, 5)

\* LIST_POOLS returned the pools of a 3000 entry and a 500 entry.
C17_Witness ==
    /\ op = "LIST_POOLS"
    /\ pc = "done"
    /\ logs = <<EntryPair3000, EntryPair500>>
    /\ Len(result.pools) = 2
    /\ result.pools[1].fee = NumOf(3000)
    /\ poolsText[1].feeTier = Shown(0, 3, 0)
    /\ result.pools[2].fee = NumOf(500)
    /\ poolsText[2].feeTier = Shown(0, 0, 5)

\* A fee of 10000 is shown as 1.00.
C17_WitnessOnePercent ==
    /\ pc = "done"
    /\ Len(result.pools) = 1
    /\ result.pools[1].fee = NumOf(10000)
    /\ poolsText[1].feeTier = Shown(1, 0, 0)

\* C18: the two token requests of a candidate are issued together, token0
\* first, before either has settled; a pending request can only settle,
\* whatever became of the other one, and settling one leaves the other as
\* it is; the loop leaves the candidate (pool pushed or dropped, next
\* entry) only when both requests have settled.
C18_BothRequestsSettle ==
    [][/\ (fetchA'.st = "pending" /\ fetchA.st # "pending")
          \/ (fetchB'.st = "pending" /\ fetchB.st # "pending")
          => /\ fetchA.st = "idle" /\ fetchB.st = "idle"
             /\ fetchA'.st = "pending" /\ fetchB'.st = "pending"
             /\ requests' = requests
                   \o <<TokenRequest(ApiUrl, cand'.token0Id),
                        TokenRequest(ApiUrl, cand'.token1Id)>>
       /\ fetchA.st = "pending" => fetchA'.st \in {"pending", "settled"}
       /\ fetchB.st = "pending" => fetchB'.st \in {"pending", "settled"}
       /\ fetchA' # fetchA /\ fetchA.st = "pending" => fetchB' = fetchB
       /\ fetchB' # fetchB /\ fetchB.st = "pending" => fetchA' = fetchA
       /\ (pc = "tokens"
           /\ (pc' # "tokens" \/ idx' # idx \/ pools' # pools \/ fate' # fate))
          => fetchA.st = "settled" /\ fetchB.st = "settled"
      ]_vars

\* The request for token0 failed, the one for token1 resolved afterwards
\* or before, and the candidate was dropped once both had settled.
C18_Witness ==
    /\ Len(fate) >= 1
    /\ fate[1] = Fate("fetched", FALSE, TRUE)
    /\ Len(requests) >= 3
    /\ pools = <<>>
    /\ idx = 2

\* The request for token1 has failed while the one for token0 is pending.
C18_WitnessOnePending ==
    /\ pc = "tokens"
    /\ fetchB = Settled(NullToken)
    /\ fetchA = Pending

\* The positions of the entries of the batch that pass the decode checks,
\* in order.
FetchedEntries == PoolsAt([i \in 1..Len(logs) |-> i],
                          {i \in 1..Len(logs) : ExpectedStep(logs[i]) = "fetched"})

\* The mirror node URL and factory contract LIST_POOLS is configured with.
ConfiguredUrl ==
    IF settings.override # "" THEN settings.override
    ELSE IF Network = "mainnet" THEN MainnetPublicUrl
    ELSE TestnetUrl
ConfiguredFactory ==
    IF Network = "mainnet" THEN "0.0.3946833" ELSE "0.0.1197038"

\* C19: a LIST_POOLS run that reached the mirror node has issued, when it
\* returns, the log request {mirrorNodeUrl}/api/v1/contracts/{factory}/
\* results/logs?limit=100 once and first; nothing more when that request
\* failed; and otherwise, for each of the k entries that pass the decode
\* checks, in order, one request for token0 and one for token1: 1 + 2k
\* requests, failed ones included, none issued again.
C19_OneAttemptPerCall ==
    (op = "LIST_POOLS" /\ pc = "done" /\ logsReq # "idle")
    => /\ requests[1] = [kind |-> "logs", url |-> ConfiguredUrl,
                         target |-> ConfiguredFactory, token |-> NaN,
                         limit |-> 100]
       /\ logsReq = "rejected" => Len(requests) = 1
       /\ logsReq = "resolved"
          => /\ Len(requests) = 1 + 2 * Len(FetchedEntries)
             /\ \A j \in 1..Len(FetchedEntries) :
                  LET log == logs[FetchedEntries[j]]
                  IN /\ requests[2 * j]
                        = TokenRequest(ConfiguredUrl,
                                       hexToHederaIdDex(TopicAt(log, 1)))
                     /\ requests[2 * j + 1]
                        = TokenRequest(ConfiguredUrl,
                                       hexToHederaIdDex(TopicAt(log, 2)))

\* LIST_POOLS on testnet returned after a batch of two entries that pass
\* the decode checks, a token request of the first having failed: five
\* requests were issued.
C19_Witness ==
    /\ op = "LIST_POOLS"
    /\ Network = "testnet"
    /\ settings.override = ""
    /\ pc = "done"
    /\ Len(logs) = 2
    /\ Len(fate) = 2
    /\ fate[1] = Fate("fetched", FALSE, TRUE)
    /\ fate[2].step = "fetched"
    /\ Len(requests) = 5

\* The log request of LIST_POOLS failed: one request was issued.
C19_WitnessRejected ==
    /\ op = "LIST_POOLS"
    /\ pc = "done"
    /\ logsReq = "rejected"
    /\ Len(requests) = 1

\* Token tok was built from payload with a default for a missing field only.
DefaultsOnlyWhenMissing(tok, payload) ==
    /\ tok.decimals = IF payload.decimals.has THEN payload.decimals.v
                      ELSE DefaultDecimals
    /\ tok.decimals \in Nat
    /\ payload.symbol.has => tok.symbol = payload.symbol.v
    /\ tok.name = IF payload.name.has THEN payload.name.v ELSE tok.symbol

\* C20: the two tokens of every record decoded from a log entry carry the
\* fields of the mirror node's payload unchanged, decimals = 0 included;
\* decimals is 8 only when the payload has none, the name is the symbol
\* only when the payload has none, and decimals is a natural number.
C20_DefaultsOnlyWhenMissing ==
    \A k \in 1..Len(pools) :
        LET c == Candidate(logs[pools[k].src])
        IN /\ DefaultsOnlyWhenMissing(pools[k].tokenA, TokenPayload(c.token0Id))
           /\ DefaultsOnlyWhenMissing(pools[k].tokenB, TokenPayload(c.token1Id))

\* What plugin-hedera-dex does keep of C20: decimals is a natural number,
\* and a present, non-zero decimals and a present name and symbol are
\* carried unchanged.
C20_PresentFieldsCarriedDex ==
    Legacy \/
    \A k \in 1..Len(pools) :
        LET c == Candidate(logs[pools[k].src])
            payload == TokenPayload(c.token0Id)
            tok == pools[k].tokenA
        IN /\ tok.decimals \in Nat
           /\ (payload.decimals.has /\ payload.decimals.v # 0)
              => tok.decimals = payload.decimals.v
           /\ payload.name.has => tok.name = payload.name.v
           /\ payload.symbol.has => tok.symbol = payload.symbol.v

\* LIST_POOLS decoded a pool whose token0 has decimals 0 and no name at
\* the mirror node: the record has decimals 8 and the name Unknown Token.
C20_WitnessZeroDecimals ==
    /\ op = "LIST_POOLS"
    /\ Len(pools) = 1
    /\ TokenPayload(Candidate(logs[pools[1].src]).token0Id).decimals = Some(0)
    /\ pools[1].tokenA.decimals = DefaultDecimals
    /\ pools[1].tokenA.name = "Unknown Token"
    /\ pools[1].tokenA.symbol = "TKNC"

(***************************************************************************)
(* C24: the mirror node URL of the requests.                               *)
(***************************************************************************)
\* The URL the network selects when HEDERA_MIRROR_NODE_URL is not set.
NetworkDefaultUrl ==
    IF Legacy THEN getHederaMirrorNodeUrl(Network, "")
    ELSE ContractAddressesMirrorNode(Network)

\* C24: every request goes to the configured HEDERA_MIRROR_NODE_URL when one
\* is configured, whatever the network and whatever the configured value,
\* and to the network's default URL only when none is configured.
C24_OverrideAlwaysWins ==
    \A i \in 1..Len(requests) :
        requests[i].url = IF settings.override # "" THEN settings.override
                          ELSE NetworkDefaultUrl

\* The same for LIST_POOLS of plugin-hedera-dex alone.
C24_OverrideAlwaysWinsDex == Legacy \/ C24_OverrideAlwaysWins

\* LIST_POOLS on testnet with the mainnet URL configured: the log request
\* and a token request went to the configured URL.
C24_WitnessDex ==
    /\ op = "LIST_POOLS"
    /\ Network = "testnet"
    /\ settings.override = MainnetUrl
    /\ Len(requests) >= 2
    /\ \A i \in 1..Len(requests) : requests[i].url = MainnetUrl

(***************************************************************************)
(* C26: the entries of a batch are processed one after the other.          *)
(***************************************************************************)
\* The positions below n of the entries that pass the decode checks.
FetchedBefore(n) ==
    PoolsAt([i \in 1..Len(logs) |-> i],
            {i \in 1..Len(logs) : i < n /\ ExpectedStep(logs[i]) = "fetched"})

\* The token requests that have been issued and have not settled.
InFlight ==
    (IF fetchA.st = "pending" THEN 1 ELSE 0)
    + (IF fetchB.st = "pending" THEN 1 ELSE 0)

\* C26: while parsePoolCreationEvents runs, the token requests issued so far
\* are those of the entries before the current one that pass the decode
\* checks, one pair per entry in entry order, token0 before token1, and all
\* of them have settled; the only requests that may be in flight are the
\* pair of the current entry, the last two issued, so at most two are in
\* flight; and each pushed record holds the two answers of the entry it was
\* decoded from, token0's as tokenA and token1's as tokenB.
C26_EntriesSequential ==
    (pc \in {"loop", "tokens"})
    => LET before == FetchedBefore(idx)
           k == Len(before)
       IN /\ Len(fate) = idx - 1
          /\ Len(requests) = 1 + 2 * k + (IF pc = "tokens" THEN 2 ELSE 0)
          /\ \A j \in 1..k :
               LET c == Candidate(logs[before[j]])
               IN /\ requests[2 * j] = TokenRequest(ApiUrl, c.token0Id)
                  /\ requests[2 * j + 1] = TokenRequest(ApiUrl, c.token1Id)
                  /\ fate[before[j]].step = "fetched"
          /\ InFlight <= 2
          /\ InFlight > 0 => pc = "tokens"
          /\ pc = "tokens"
             => /\ ExpectedStep(logs[idx]) = "fetched"
                /\ requests[2 * k + 2]
                   = TokenRequest(ApiUrl, Candidate(logs[idx]).token0Id)
                /\ requests[2 * k + 3]
                   = TokenRequest(ApiUrl, Candidate(logs[idx]).token1Id)
          /\ pc = "loop" => InFlight = 0 /\ cand = NoCandidate
          /\ \A j \in 1..Len(pools) :
               /\ pools[j].src < idx
               /\ ExpectedStep(logs[pools[j].src]) = "fetched"
               /\ pools[j] = RecordOf(pools[j].src, j)

\* The second entry's pair is in flight after the first entry's pair has
\* settled and its record was pushed: five requests, two of them pending.
C26_Witness ==
    /\ op = "LIST_POOLS"
    /\ pc = "tokens"
    /\ idx = 2
    /\ Len(requests) = 5
    /\ InFlight = 2
    /\ Len(pools) = 1
    /\ requests[4].token # requests[2].token

(***************************************************************************)
(* SWAP_TOKENS of plugin-hedera-dex.  The text of the message is read as   *)
(* [form, amount, a, b]: "swap" is `swap <amount> <a> for|to|into <b>`,    *)
(* "bare" the same without the word swap, "none" a text neither regular    *)
(* expression matches, "empty" no text.  Amounts are whole numbers.  An    *)
(* unset credential is "".                                                 *)
(***************************************************************************)
SwapMessage(form, amount, a, b) ==
    [form |-> form, amount |-> amount, a |-> a, b |-> b]

\* text.match(/swap\s+(\d+(?:\.\d+)?)\s+(\w+)\s+(?:for|to|into)\s+(\w+)/i)
\* || text.match(/(\d+(?:\.\d+)?)\s+(\w+)\s+(?:for|to|into)\s+(\w+)/i)
swapMatch(m) == m.form \in {"swap", "bare"}

\* HEDERA_PRIVATE_KEY: a key PrivateKey.fromStringECDSA accepts, or a text
\* it throws on.
ValidKey == "3030020100300706052b8104000a04220420"
MalformedKey == "not-a-private-key"
PrivateKeys == {"", ValidKey, MalformedKey}
fromStringECDSAThrows(privateKeyString) == privateKeyString = MalformedKey

\* HEDERA_ACCOUNT_ID, by what the code reads of it: whether it is set,
\* whether AccountId.fromString accepts it, the number of parts
\* split('.') gives, and parseInt of the third part.
AccountIdString(set, accepted, parts, num) ==
    [set |-> set, accepted |-> accepted, parts |-> parts, num |-> num]
NoAccountId == AccountIdString(FALSE, FALSE, 0, NaN)
\* '0.0.1001'
EntityAccountId == AccountIdString(TRUE, TRUE, 3, NumOf(1001))
\* '0x00000000000000000000000000000000000003e9': an EVM address, which
\* AccountId.fromString accepts.
EvmAccountId == AccountIdString(TRUE, TRUE, 1, NaN)
\* 'my-account'
MalformedAccountId == AccountIdString(TRUE, FALSE, 1, NaN)
AccountIds == {NoAccountId, EntityAccountId, EvmAccountId, MalformedAccountId}

\* An entity id '0.0.n' of the address tables, as hederaIdToEvmAddress
\* reads it.
HederaId(n) == AccountIdString(TRUE, TRUE, 3, NumOf(n))

\* SAUCERSWAP_CONTRACTS[network]?.router as an entity number; 0 for no entry.
SAUCERSWAP_CONTRACTS_router(network) ==
    IF network \in {"mainnet", "testnet"} THEN 3949434 ELSE 0

\* TOKEN_ADDRESSES[network][symbol] as an entity number; 0 for no entry.
TOKEN_ADDRESSES(network, symbol) ==
    IF network = "mainnet" THEN
        IF symbol \in {"WHBAR", "USDT", "BONZO"} THEN 1456986
        ELSE IF symbol = "USDC" THEN 456858
        ELSE IF symbol = "SAUCE" THEN 731861
        ELSE 0
    ELSE IF network = "testnet" THEN
        IF symbol \in {"WHBAR", "USDC", "USDT", "SAUCE", "BONZO"} THEN 1456986
        ELSE 0
    ELSE 0

\* fromToken === 'HBAR' ? networkTokens.WHBAR : networkTokens[fromToken]
RoutingAddress(network, symbol) ==
    IF symbol = "HBAR" THEN TOKEN_ADDRESSES(network, "WHBAR")
    ELSE TOKEN_ADDRESSES(network, symbol)

\* FEE_TIERS.MEDIUM
FEE_TIERS_MEDIUM == 3000

RECURSIVE Pow10(_)
Pow10(e) == IF e = 0 THEN 1 ELSE 10 * Pow10(e - 1)
\* ethers.parseUnits of a whole number: the amount in the smallest unit.
parseUnits(value, decimals) == value * Pow10(decimals)
\* Decimals executeRealSwap assumes for the input and the output token.
AmountInDecimals == 8
AmountOutDecimals == 6

RECURSIVE toString16(_)
\* Number.prototype.toString(16): the hex digits, none of them leading zeros.
toString16(n) ==
    IF n < 16 THEN <<n>> ELSE Append(toString16(n \div 16), n % 16)
\* String.prototype.padStart(n, '0')
padStart(ds, n) == IF Len(ds) >= n THEN ds ELSE Zeros(n - Len(ds)) \o ds

\* Digits of an EVM address.
AddressHexDigits == 40
\* hederaIdToEvmAddress throws: not three parts, or no number in the third.
hederaIdToEvmAddressThrows(id) == id.parts # 3 \/ id.num = NaN
\* Mutant: the account number is written in base 10.
hederaIdToEvmAddressDecimal(id) ==
    LET Decimal[n \in Nat] ==
            IF n < 10 THEN <<n>> ELSE Append(Decimal[n \div 10], n % 10)
    IN  padStart(Decimal[id.num.lo], AddressHexDigits)

\* hederaIdToEvmAddress: the hex digits that follow '0x'.
hederaIdToEvmAddress(id) == padStart(toString16(id.num.lo), AddressHexDigits)

\* mockRates[fromToken]?.[toToken] as the fraction num/den; has is FALSE
\* for a pair the table has no rate for.
Rate(num, den) == [has |-> TRUE, num |-> num, den |-> den]
NoRate == [has |-> FALSE, num |-> 0, den |-> 1]
mockRates(fromToken, toToken) ==
    IF fromToken \in {"HBAR", "WHBAR"} THEN
        IF toToken \in {"USDT", "USDC"} THEN Rate(12, 100)
        ELSE IF toToken = "SAUCE" THEN Rate(150, 1)
        ELSE IF toToken = "BONZO" THEN Rate(2000, 1)
        ELSE NoRate
    ELSE IF fromToken \in {"USDT", "USDC"} THEN
        IF toToken \in {"HBAR", "WHBAR"} THEN Rate(833, 100)
        ELSE IF toToken = "SAUCE" THEN Rate(1250, 1)
        ELSE IF toToken = "BONZO" THEN Rate(16667, 1)
        ELSE NoRate
    ELSE IF fromToken = "SAUCE" THEN
        IF toToken \in {"HBAR", "WHBAR"} THEN Rate(67, 10000)
        ELSE IF toToken \in {"USDT", "USDC"} THEN Rate(8, 10000)
        ELSE NoRate
    ELSE IF fromToken = "BONZO" THEN
        IF toToken \in {"HBAR", "WHBAR"} THEN Rate(5, 10000)
        ELSE IF toToken \in {"USDT", "USDC"} THEN Rate(6, 100000)
        ELSE NoRate
    ELSE NoRate

\* Math.min(amount * 0.001, 0.05), in thousandths.
SlippageCap == 50
Slippage(amount) == IF amount < SlippageCap THEN amount ELSE SlippageCap

\* (amount * rate * (1 - slippage)).toFixed(6), rounded to the nearest.
EstimatedOutput(amount, rate) ==
    LET unit == 1000 * rate.den
        total == amount * rate.num * (1000 - Slippage(amount))
        whole == total \div unit
        rem == total % unit
        micro == IF rate.den <= 1000 THEN rem * (1000 \div rate.den)
                 ELSE (2 * rem + rate.den \div 1000)
                      \div (2 * (rate.den \div 1000))
    IN  IF micro = 1000000 THEN Fixed(whole + 1, 0, 6)
        ELSE Fixed(whole, micro, 6)

\* simulateSwap: the estimate, or the answer of its catch block when the
\* table has no rate for the pair.
simulateSwap(amount, fromToken, toToken) ==
    LET rate == mockRates(fromToken, toToken)
        popular == /\ fromToken \in {"HBAR", "WHBAR"}
                   /\ toToken \in {"USDT", "USDC"}
    IN  IF ~rate.has
        THEN [returned |-> TRUE, estimatedOutput |-> Fixed(0, 0, 0),
              feeTier |-> Fixed(0, 30, 2), priceImpact |-> Fixed(0, 0, 3)]
        ELSE [returned |-> TRUE,
              estimatedOutput |-> EstimatedOutput(amount, rate),
              feeTier |-> IF popular THEN Fixed(0, 30, 2) ELSE Fixed(0, 15, 2),
              priceImpact |-> Fixed(Slippage(amount) \div 10,
                                    (Slippage(amount) % 10) * 100, 3)]

\* Error messages and texts of SWAP_TOKENS.
CouldNotParseSwap == <<"Could", "not", "parse", "swap", "parameters.">>
InvalidPrivateKey == <<"invalid", "private", "key">>
InvalidAccountId == <<"invalid", "format", "for", "entity", "ID">>
RouterNotFound == <<"Router", "contract", "not", "found", "for", "network:">>
TokenAddressesNotFound ==
    <<"Token", "addresses", "not", "found", "for">>
InvalidIdFormat == <<"Invalid", "Hedera", "account", "ID", "format:">>
TransactionFailed(status) ==
    <<"Transaction", "failed", "with", "status:", status>>
SwapExecutionFailed == <<"Swap", "execution", "failed:">>
SwapFailedText == <<"Failed", "to", "process", "token", "swap:">>
SwapExecutedText == <<"Successfully", "executed", "swap:">>
SwapSimulatedText == <<"Simulated", "swap:">>

\* What executeRealSwap returns: from its try block, or its catch block.
SwapResultSuccess(transactionId) ==
    [returned |-> TRUE, success |-> TRUE, transactionId |-> transactionId,
     error |-> <<>>]
SwapResultFailure(error) ==
    [returned |-> TRUE, success |-> FALSE, transactionId |-> "",
     error |-> error]

\* The results of SWAP_TOKENS; simulation is "true", "false", or "" when
\* the result has no such field, transactionId "" when it has none.
SwapExecuted(amount, fromToken, toToken, transactionId) ==
    [returned |-> TRUE, success |-> TRUE, simulation |-> "false",
     transactionId |-> transactionId, estimatedOutput |-> NoFixed,
     amount |-> amount, fromToken |-> fromToken, toToken |-> toToken,
     error |-> "", message |-> <<>>, text |-> SwapExecutedText]
\* handleSwapSimulation
SwapSimulated(amount, fromToken, toToken, swapDetails) ==
    [returned |-> TRUE, success |-> TRUE, simulation |-> "true",
     transactionId |-> "", estimatedOutput |-> swapDetails.estimatedOutput,
     amount |-> amount, fromToken |-> fromToken, toToken |-> toToken,
     error |-> "", message |-> <<>>, text |-> SwapSimulatedText]
\* The catch block of the handler.
SwapFailure(errorMessage) ==
    [returned |-> TRUE, success |-> FALSE, simulation |-> "",
     transactionId |-> "", estimatedOutput |-> NoFixed,
     amount |-> 0, fromToken |-> "", toToken |-> "",
     error |-> "SWAP_TOKENS_FAILED", message |-> errorMessage,
     text |-> SwapFailedText \o errorMessage]

\* runtime.getSetting('HEDERA_NETWORK') || 'testnet'
SwapNetwork == IF settings.network = "" THEN "testnet" ELSE settings.network

\* The three values the handler takes from the match.
ParsedAmount == message.amount
fromTokenSymbol == toUpperCase(message.a)
toTokenSymbol == toUpperCase(message.b)

\* !privateKeyString || !accountIdString
CredentialsMissing == settings.privateKey = "" \/ ~settings.accountId.set

\* The error executeRealSwap throws before it has a transaction to submit,
\* in the order of its checks; <<>> when it throws none.
PrepareError ==
    IF fromStringECDSAThrows(settings.privateKey) THEN InvalidPrivateKey
    ELSE IF ~settings.accountId.accepted THEN InvalidAccountId
    ELSE IF SAUCERSWAP_CONTRACTS_router(SwapNetwork) = 0
    THEN RouterNotFound \o <<SwapNetwork>>
    ELSE IF \/ RoutingAddress(SwapNetwork, fromTokenSymbol) = 0
            \/ RoutingAddress(SwapNetwork, toTokenSymbol) = 0
    THEN TokenAddressesNotFound \o <<fromTokenSymbol, toTokenSymbol>>
    ELSE IF hederaIdToEvmAddressThrows(settings.accountId) THEN InvalidIdFormat
    ELSE <<>>

\* The ContractExecuteTransaction executeRealSwap builds: the router, the
\* parameters of exactInput and the payable amount.
BuiltTransaction ==
    [built |-> TRUE,
     contractId |-> SAUCERSWAP_CONTRACTS_router(SwapNetwork),
     amountIn |-> parseUnits(ParsedAmount, AmountInDecimals),
     amountOutMinimum |-> parseUnits(0, AmountOutDecimals),
     path |-> <<hederaIdToEvmAddress(
                    HederaId(RoutingAddress(SwapNetwork, fromTokenSymbol))),
                FEE_TIERS_MEDIUM,
                hederaIdToEvmAddress(
                    HederaId(RoutingAddress(SwapNetwork, toTokenSymbol)))>>,
     recipient |-> hederaIdToEvmAddress(settings.accountId),
     payableAmount |-> IF fromTokenSymbol \in {"HBAR", "WHBAR"}
                       THEN ParsedAmount ELSE 0]

\* response.transactionId.toString()
TransactionIdText == "0.0.1001@1730000000.000000001"

\* What the handler returns for what executeRealSwap returned.
SwapOutcome(swapResult) ==
    IF swapResult.success
    THEN SwapExecuted(ParsedAmount, fromTokenSymbol, toTokenSymbol,
                      swapResult.transactionId)
    ELSE SwapFailure(SwapExecutionFailed \o swapResult.error)

\* Mutant: no catch block around the handler: the exception reaches the
\* caller.
SwapRejectRequestUncaught ==
    /\ pc = "start"
    /\ op = "SWAP_TOKENS"
    /\ ~swapMatch(message)
    /\ pc' = "thrown"
    /\ UNCHANGED <<op, settings, message, callback, conv, swap, logsReq,
                   requests, logs, idx, cand, fetchA, fetchB, pools, fate,
                   shown, dataSource, result, callbacks, poolsText>>

\* No text, or no regular expression matches: the throw lands in the
\* handler's catch block.
SwapRejectRequest ==
    /\ pc = "start"
    /\ op = "SWAP_TOKENS"
    /\ ~swapMatch(message)
    /\ result' = SwapFailure(IF message.form = "empty" THEN NoTextContent
                             ELSE CouldNotParseSwap)
    /\ pc' = "done"
    /\ UNCHANGED <<op, settings, message, callback, conv, swap, logsReq,
                   requests, logs, idx, cand, fetchA, fetchB, pools, fate,
                   shown, dataSource, callbacks, poolsText>>

\* Mutant: a pair without a rate is reported as a failure.
SwapSimulateStrict ==
    /\ pc = "start"
    /\ op = "SWAP_TOKENS"
    /\ swapMatch(message)
    /\ CredentialsMissing
    /\ LET swapDetails ==
               simulateSwap(ParsedAmount, fromTokenSymbol, toTokenSymbol)
           rated == mockRates(fromTokenSymbol, toTokenSymbol).has
       IN /\ swap' = [swap EXCEPT !.amount = ParsedAmount,
                                  !.fromToken = fromTokenSymbol,
                                  !.toToken = toTokenSymbol,
                                  !.swapDetails = swapDetails]
          /\ result' = IF rated
                       THEN SwapSimulated(ParsedAmount, fromTokenSymbol,
                                          toTokenSymbol, swapDetails)
                       ELSE SwapFailure(<<"No", "rate", "available">>)
          /\ callbacks' = IF callback /\ rated THEN callbacks + 1
                          ELSE callbacks
    /\ pc' = "done"
    /\ UNCHANGED <<op, settings, message, callback, conv, logsReq, requests,
                   logs, idx, cand, fetchA, fetchB, pools, fate, shown,
                   dataSource, poolsText>>

\* A credential is missing: simulateSwap and handleSwapSimulation.
SwapSimulate ==
    /\ pc = "start"
    /\ op = "SWAP_TOKENS"
    /\ swapMatch(message)
    /\ CredentialsMissing
    /\ LET swapDetails ==
               simulateSwap(ParsedAmount, fromTokenSymbol, toTokenSymbol)
       IN /\ swap' = [swap EXCEPT !.amount = ParsedAmount,
                                  !.fromToken = fromTokenSymbol,
                                  !.toToken = toTokenSymbol,
                                  !.swapDetails = swapDetails]
          /\ result' = SwapSimulated(ParsedAmount, fromTokenSymbol,
                                     toTokenSymbol, swapDetails)
    /\ callbacks' = IF callback THEN callbacks + 1 ELSE callbacks
    /\ pc' = "done"
    /\ UNCHANGED <<op, settings, message, callback, conv, logsReq, requests,
                   logs, idx, cand, fetchA, fetchB, pools, fate, shown,
                   dataSource, poolsText>>

\* Mutant: when the swap cannot be prepared the handler answers with a
\* simulation.
SwapPrepareFailsSimulated ==
    /\ pc = "start"
    /\ op = "SWAP_TOKENS"
    /\ swapMatch(message)
    /\ ~CredentialsMissing
    /\ PrepareError # <<>>
    /\ LET swapDetails ==
               simulateSwap(ParsedAmount, fromTokenSymbol, toTokenSymbol)
       IN /\ swap' = [swap EXCEPT !.amount = ParsedAmount,
                                  !.fromToken = fromTokenSymbol,
                                  !.toToken = toTokenSymbol,
                                  !.swapDetails = swapDetails,
                                  !.swapResult = SwapResultFailure(PrepareError)]
          /\ result' = SwapSimulated(ParsedAmount, fromTokenSymbol,
                                     toTokenSymbol, swapDetails)
    /\ callbacks' = IF callback THEN callbacks + 1 ELSE callbacks
    /\ pc' = "done"
    /\ UNCHANGED <<op, settings, message, callback, conv, logsReq, requests,
                   logs, idx, cand, fetchA, fetchB, pools, fate, shown,
                   dataSource, poolsText>>

\* executeRealSwap throws before it has a transaction: its catch block
\* returns the error, and the handler throws into its own catch block.
SwapPrepareFails ==
    /\ pc = "start"
    /\ op = "SWAP_TOKENS"
    /\ swapMatch(message)
    /\ ~CredentialsMissing
    /\ PrepareError # <<>>
    /\ swap' = [swap EXCEPT !.amount = ParsedAmount,
                            !.fromToken = fromTokenSymbol,
                            !.toToken = toTokenSymbol,
                            !.swapResult = SwapResultFailure(PrepareError)]
    /\ result' = SwapOutcome(SwapResultFailure(PrepareError))
    /\ pc' = "done"
    /\ UNCHANGED <<op, settings, message, callback, conv, logsReq, requests,
                   logs, idx, cand, fetchA, fetchB, pools, fate, shown,
                   dataSource, callbacks, poolsText>>

\* executeRealSwap has built the transaction and calls transaction.execute.
SwapExecute ==
    /\ pc = "start"
    /\ op = "SWAP_TOKENS"
    /\ swapMatch(message)
    /\ ~CredentialsMissing
    /\ PrepareError = <<>>
    /\ swap' = [swap EXCEPT !.amount = ParsedAmount,
                            !.fromToken = fromTokenSymbol,
                            !.toToken = toTokenSymbol,
                            !.transaction = BuiltTransaction]
    /\ pc' = "execute"
    /\ UNCHANGED <<op, settings, message, callback, conv, logsReq, requests,
                   logs, idx, cand, fetchA, fetchB, pools, fate, shown,
                   dataSource, result, callbacks, poolsText>>

\* transaction.execute rejects: the transaction was not submitted.
SwapExecuteRejected ==
    /\ pc = "execute"
    /\ swap' = [swap EXCEPT !.swapResult = SwapResultFailure(NetworkError)]
    /\ result' = SwapOutcome(SwapResultFailure(NetworkError))
    /\ pc' = "done"
    /\ UNCHANGED <<op, settings, message, callback, conv, logsReq, requests,
                   logs, idx, cand, fetchA, fetchB, pools, fate, shown,
                   dataSource, callbacks, poolsText>>

\* transaction.execute resolves: the transaction is submitted, and
\* response.getReceipt is called.
SwapExecuteResolved ==
    /\ pc = "execute"
    /\ swap' = [swap EXCEPT !.submitted = TRUE]
    /\ pc' = "receipt"
    /\ UNCHANGED <<op, settings, message, callback, conv, logsReq, requests,
                   logs, idx, cand, fetchA, fetchB, pools, fate, shown,
                   dataSource, result, callbacks, poolsText>>

\* response.getReceipt rejects: no receipt.
SwapReceiptRejected ==
    /\ pc = "receipt"
    /\ swap' = [swap EXCEPT !.swapResult = SwapResultFailure(NetworkError)]
    /\ result' = SwapOutcome(SwapResultFailure(NetworkError))
    /\ pc' = "done"
    /\ UNCHANGED <<op, settings, message, callback, conv, logsReq, requests,
                   logs, idx, cand, fetchA, fetchB, pools, fate, shown,
                   dataSource, callbacks, poolsText>>

\* The statuses a receipt may carry besides SUCCESS.
FailedStatuses == {"CONTRACT_REVERT_EXECUTED", "INSUFFICIENT_GAS"}

\* The receipt's status is not SUCCESS: the else branch throws.
SwapReceiptFailed ==
    /\ pc = "receipt"
    /\ \E status \in FailedStatuses :
         /\ swap' = [swap EXCEPT
                        !.receipt = status,
                        !.swapResult =
                            SwapResultFailure(TransactionFailed(status))]
         /\ result' = SwapOutcome(SwapResultFailure(TransactionFailed(status)))
    /\ pc' = "done"
    /\ UNCHANGED <<op, settings, message, callback, conv, logsReq, requests,
                   logs, idx, cand, fetchA, fetchB, pools, fate, shown,
                   dataSource, callbacks, poolsText>>

\* The receipt's status is SUCCESS: response.getRecord is called.
SwapReceiptSuccess ==
    /\ pc = "receipt"
    /\ swap' = [swap EXCEPT !.receipt = "SUCCESS"]
    /\ pc' = "record"
    /\ UNCHANGED <<op, settings, message, callback, conv, logsReq, requests,
                   logs, idx, cand, fetchA, fetchB, pools, fate, shown,
                   dataSource, result, callbacks, poolsText>>

\* response.getRecord rejects: the rejection lands in the catch block of
\* executeRealSwap.
SwapRecordRejected ==
    /\ pc = "record"
    /\ swap' = [swap EXCEPT !.swapResult = SwapResultFailure(NetworkError)]
    /\ result' = SwapOutcome(SwapResultFailure(NetworkError))
    /\ pc' = "done"
    /\ UNCHANGED <<op, settings, message, callback, conv, logsReq, requests,
                   logs, idx, cand, fetchA, fetchB, pools, fate, shown,
                   dataSource, callbacks, poolsText>>

\* response.getRecord resolves: executeRealSwap returns the transaction id,
\* the handler invokes the callback when one was passed, and returns.
SwapRecordResolved ==
    /\ pc = "record"
    /\ swap' = [swap EXCEPT
                   !.swapResult = SwapResultSuccess(TransactionIdText)]
    /\ result' = SwapOutcome(SwapResultSuccess(TransactionIdText))
    /\ callbacks' = IF callback THEN callbacks + 1 ELSE callbacks
    /\ pc' = "done"
    /\ UNCHANGED <<op, settings, message, callback, conv, logsReq, requests,
                   logs, idx, cand, fetchA, fetchB, pools, fate, shown,
                   dataSource, poolsText>>

\* The requests and settings SWAP_TOKENS is run with.
SwapAmounts == {0, 1, MaxAmount}
SwapPairs ==
    {<<"HBAR", "USDT">>, <<"hbar", "USDC">>, <<"WHBAR", "SAUCE">>,
     <<"USDC", "HBAR">>, <<"USDT", "BONZO">>, <<"BONZO", "USDC">>,
     <<"SAUCE", "BONZO">>, <<"HBAR", "FAKE">>}
SwapMessages ==
    {SwapMessage(form, amount, pair[1], pair[2]) :
        form \in {"swap", "bare"}, amount \in SwapAmounts, pair \in SwapPairs}
    \cup {SwapMessage("none", 0, "", ""), SwapMessage("empty", 0, "", "")}
SwapSettings ==
    [network : {"", "mainnet", "testnet", "previewnet"}, override : {""},
     demo : {FALSE}, privateKey : PrivateKeys, accountId : AccountIds]

InitSwap ==
    /\ op = "SWAP_TOKENS"
    /\ settings \in SwapSettings
    /\ message \in SwapMessages
    /\ callback \in CallbackPassed(op)
    /\ swap = NoSwap
    /\ conv = NoConversion
    /\ pc = "start"
    /\ requests = <<>>
    /\ logsReq = "idle"
    /\ logs = <<>>
    /\ idx = 0
    /\ cand = NoCandidate
    /\ fetchA = Idle
    /\ fetchB = Idle
    /\ pools = <<>>
    /\ fate = <<>>
    /\ shown = <<>>
    /\ dataSource = NoLabel
    /\ result = NoResult
    /\ callbacks = 0
    /\ poolsText = <<>>

NextSwap ==
    \/ SwapRejectRequest
    \/ SwapSimulate
    \/ SwapPrepareFails
    \/ SwapExecute
    \/ SwapExecuteRejected
    \/ SwapExecuteResolved
    \/ SwapReceiptRejected
    \/ SwapReceiptFailed
    \/ SwapReceiptSuccess
    \/ SwapRecordRejected
    \/ SwapRecordResolved

SpecSwap == InitSwap /\ [][NextSwap]_vars

(***************************************************************************)
(* C21, C22, C25, C30: SWAP_TOKENS.                                        *)
(***************************************************************************)
\* C21: SWAP_TOKENS keeps simulation and execution apart.  A transaction is
\* built and submitted only when both HEDERA_PRIVATE_KEY and
\* HEDERA_ACCOUNT_ID are set; a parsed request with either one missing
\* returns success with simulation = true, no transaction id and nothing
\* submitted; a successful result of an execution has simulation = false and
\* a transaction id; and a request that went to executeRealSwap never
\* returns a result flagged as a simulation, so that a failed execution is a
\* failure.
C21_SimulationOrExecution ==
    /\ (swap.transaction.built \/ swap.submitted) => ~CredentialsMissing
    /\ (pc = "done" /\ swapMatch(message) /\ CredentialsMissing)
       => /\ result.returned /\ result.success
          /\ result.simulation = "true"
          /\ result.transactionId = ""
          /\ ~swap.swapResult.returned
    /\ (pc = "done" /\ result.success /\ ~CredentialsMissing)
       => /\ result.simulation = "false"
          /\ result.transactionId # ""
          /\ swap.submitted
    /\ (pc = "done" /\ ~CredentialsMissing)
       => /\ result.returned
          /\ result.simulation # "true"
          /\ ~swap.swapDetails.returned
          /\ result.success = swap.swapResult.success

\* The private key is set and the account id is not: a simulation.
C21_Witness ==
    /\ pc = "done"
    /\ settings.privateKey = ValidKey
    /\ ~settings.accountId.set
    /\ result.simulation = "true"
    /\ result.transactionId = ""

\* Both are set and the swap was executed.
C21_WitnessExecuted ==
    /\ pc = "done"
    /\ ~CredentialsMissing
    /\ swap.submitted
    /\ result.success
    /\ result.simulation = "false"

\* Both are set and the submitted transaction failed.
C21_WitnessFailed ==
    /\ pc = "done"
    /\ swap.submitted
    /\ swap.receipt \in FailedStatuses
    /\ ~result.success

\* C22: with both credentials set and a parsed request, the handler returns
\* a transaction id exactly when the receipt of the transaction has status
\* SUCCESS; in every other case executeRealSwap has returned success =
\* false with an error reason, and the handler reports a failure with the
\* tag SWAP_TOKENS_FAILED.
C22_TransactionIdIffSuccess ==
    (pc = "done" /\ swapMatch(message) /\ ~CredentialsMissing)
    => /\ (result.transactionId # "") <=> (swap.receipt = "SUCCESS")
       /\ swap.receipt # "SUCCESS"
          => /\ swap.swapResult.returned
             /\ ~swap.swapResult.success
             /\ swap.swapResult.error # <<>>
             /\ ~result.success
             /\ result.error = "SWAP_TOKENS_FAILED"

\* The half of C22 about failures: whenever executeRealSwap did not return
\* a transaction id it returned success = false with a reason, and the
\* handler reports SWAP_TOKENS_FAILED; a transaction id is returned only
\* after a receipt with status SUCCESS.
C22_FailureReported ==
    (pc = "done" /\ swapMatch(message) /\ ~CredentialsMissing)
    => /\ swap.swapResult.returned
       /\ result.transactionId # "" => swap.receipt = "SUCCESS"
       /\ result.transactionId = ""
          => /\ ~swap.swapResult.success
             /\ swap.swapResult.error # <<>>
             /\ ~result.success
             /\ result.error = "SWAP_TOKENS_FAILED"
             /\ StartsWith(result.text, SwapFailedText \o SwapExecutionFailed)

\* The receipt has status SUCCESS and the handler reports a failure.
C22_WitnessRecordRejected ==
    /\ pc = "done"
    /\ swap.receipt = "SUCCESS"
    /\ ~result.success
    /\ result.error = "SWAP_TOKENS_FAILED"

\* C25: a submitted swap is protected against slippage: the transaction's
\* amountOutMinimum is greater than zero whenever its input amount is not
\* zero.
C25_MinimumOutputPositive ==
    (swap.submitted /\ swap.transaction.amountIn > 0)
    => swap.transaction.amountOutMinimum > 0

\* What the code does instead: every transaction it builds accepts any
\* output, amountOutMinimum = 0.
C25_MinimumOutputZero ==
    swap.transaction.built => swap.transaction.amountOutMinimum = 0

\* A swap of ten HBAR was submitted with amountOutMinimum = 0.
C25_WitnessSubmitted ==
    /\ swap.submitted
    /\ swap.fromToken = "HBAR"
    /\ swap.transaction.amountIn = 1000000000
    /\ swap.transaction.payableAmount = 10
    /\ swap.transaction.amountOutMinimum = 0

\* C30: simulateSwap always returns: for a pair the rate table has no entry
\* for, its estimatedOutput is the text '0' (and for a pair with a rate a
\* number with six decimals); SWAP_TOKENS in simulation mode then returns
\* success = true with simulation = true and that estimate, a missing rate
\* included.
C30_MissingRateSimulated ==
    (pc = "done" /\ swapMatch(message) /\ CredentialsMissing)
    => /\ swap.swapDetails.returned
       /\ result.success
       /\ result.simulation = "true"
       /\ result.error = ""
       /\ result.estimatedOutput = swap.swapDetails.estimatedOutput
       /\ IF mockRates(swap.fromToken, swap.toToken).has
          THEN result.estimatedOutput.digits = 6
          ELSE result.estimatedOutput = Fixed(0, 0, 0)

\* 'swap 10 SAUCE for BONZO' without credentials: no rate, estimate '0',
\* success.
C30_Witness ==
    /\ pc = "done"
    /\ swap.fromToken = "SAUCE"
    /\ swap.toToken = "BONZO"
    /\ swap.amount = MaxAmount
    /\ result.success
    /\ result.simulation = "true"
    /\ result.estimatedOutput = Fixed(0, 0, 0)

\* 'swap 10 hbar for USDC' without credentials: the estimate is 1.188000.
C30_WitnessRated ==
    /\ pc = "done"
    /\ message.a = "hbar"
    /\ swap.fromToken = "HBAR"
    /\ swap.amount = 10
    /\ result.estimatedOutput = Fixed(1, 188000, 6)
    /\ swap.swapDetails.feeTier = Fixed(0, 30, 2)
    /\ swap.swapDetails.priceImpact = Fixed(1, 0, 3)

(***************************************************************************)
(* The two id conversions on their own: an id '0.0.N' is turned into an    *)
(* EVM address by hederaIdToEvmAddress and back by hexToHederaId of        *)
(* plugin-hedera-dex.                                                      *)
(***************************************************************************)
\* The entity numbers converted: an unbroken range, and the numbers around
\* each change of the hex length and around the limit of hexToHederaId.
AccountNums ==
    (0..MaxAccountNum)
    \cup {255, 256, 4095, 4096, 65535, 65536, 1048575, 1048576, 16777215,
          16777216, 1456986, 3949434, 99999999, 100000000, 100000001,
          268435455, 268435456}

InitRoundTrip ==
    /\ op = "LIST_POOLS"
    /\ settings = ParseSettings
    /\ message = NoMessage
    /\ callback = TRUE
    /\ \E n \in AccountNums : conv = Conversion(n, NoAddress, NaN)
    /\ swap = NoSwap
    /\ pc = "toEvm"
    /\ requests = <<>>
    /\ logsReq = "idle"
    /\ logs = <<>>
    /\ idx = 0
    /\ cand = NoCandidate
    /\ fetchA = Idle
    /\ fetchB = Idle
    /\ pools = <<>>
    /\ fate = <<>>
    /\ shown = <<>>
    /\ dataSource = NoLabel
    /\ result = NoResult
    /\ callbacks = 0
    /\ poolsText = <<>>

\* hederaIdToEvmAddress('0.0.N'): '0x' and the padded hex digits.
ConvertToEvmAddress ==
    /\ pc = "toEvm"
    /\ ~hederaIdToEvmAddressThrows(HederaId(conv.num))
    /\ conv' = [conv EXCEPT !.evmAddress =
                   [prefix |-> "0x",
                    digits |-> hederaIdToEvmAddress(HederaId(conv.num))]]
    /\ pc' = "toHedera"
    /\ UNCHANGED <<op, settings, message, callback, swap, requests, logsReq,
                   logs, idx, cand, fetchA, fetchB, pools, fate, shown,
                   dataSource, result, callbacks, poolsText>>

\* hexToHederaId of that address: hex.replace('0x', '') leaves the digits.
ConvertToHederaId ==
    /\ pc = "toHedera"
    /\ conv' = [conv EXCEPT !.hederaId =
                   hexToHederaIdDex(Str(conv.evmAddress.digits))]
    /\ pc' = "converted"
    /\ UNCHANGED <<op, settings, message, callback, swap, requests, logsReq,
                   logs, idx, cand, fetchA, fetchB, pools, fate, shown,
                   dataSource, result, callbacks, poolsText>>

NextRoundTrip ==
    \/ ConvertToEvmAddress
    \/ ConvertToHederaId

SpecRoundTrip == InitRoundTrip /\ [][NextRoundTrip]_vars

\* C29: for every entity number N from 1 to 100,000,000, hexToHederaId of
\* hederaIdToEvmAddress('0.0.N') is '0.0.N' again; and every address
\* hederaIdToEvmAddress returns is '0x' followed by exactly 40 hex digits.
C29_RoundTrip ==
    /\ conv.evmAddress # NoAddress
       => /\ conv.evmAddress.prefix = "0x"
          /\ Len(conv.evmAddress.digits) = 40
          /\ \A i \in 1..40 : conv.evmAddress.digits[i] \in 0..15
    /\ (pc = "converted" /\ conv.num >= 1 /\ conv.num <= 100000000)
       => conv.hederaId = NumOf(conv.num)

\* '0.0.100000000', the largest id of the claim, came back unchanged
\* through the address 0x00..0005f5e100.
C29_Witness ==
    /\ pc = "converted"
    /\ conv.num = 100000000
    /\ SliceLast(conv.evmAddress.digits, 8) = <<0, 5, 15, 5, 14, 1, 0, 0>>
    /\ conv.hederaId = NumOf(100000000)

\* Outside the claim's range the round trip fails: '0.0.100000001' comes
\* back as '0.0.0'.
C29_WitnessAboveRange ==
    /\ pc = "converted"
    /\ conv.num = 100000001
    /\ conv.hederaId = InvalidId

(***************************************************************************)
(* LIST_POOLS from the end of parsePoolCreationEvents on, after a batch of *)
(* up to MaxDecoded entries that all pass the decode checks: entry i is    *)
(* the pair of tokens 0.0.i and 0.0.(i+1); the token requests of at most   *)
(* one entry failed.                                                       *)
(***************************************************************************)
DecodedBatch(n) == [i \in 1..n |-> PairEntry(i, i + 1)]

\* The requests issued for such a batch: the logs, then token0 and token1
\* of each entry.
RequestsOfBatch(n) ==
    [j \in 1..(2 * n + 1) |->
        IF j = 1 THEN LogsRequest(TestnetUrl, "0.0.1197038", DexLogLimit)
        ELSE IF j % 2 = 0 THEN TokenRequest(TestnetUrl, NumOf(j \div 2))
        ELSE TokenRequest(TestnetUrl, NumOf(j \div 2 + 1))]

InitListing ==
    /\ op = "LIST_POOLS"
    /\ settings = ParseSettings
    /\ message = NoMessage
    /\ callback \in CallbackPassed(op)
    /\ conv = NoConversion
    /\ swap = NoSwap
    /\ pc = "loop"
    /\ logsReq = "resolved"
    /\ \E n \in 0..MaxDecoded, failed \in 0..MaxDecoded :
         /\ failed <= n
         /\ logs = DecodedBatch(n)
         /\ requests = RequestsOfBatch(n)
         /\ idx = n + 1
         /\ fate = [i \in 1..n |-> Fate("fetched", i # failed, TRUE)]
    /\ cand = NoCandidate
    /\ fetchA = Idle
    /\ fetchB = Idle
    /\ pools = RecordsOfGoodEntries(Len(logs))
    /\ shown = <<>>
    /\ dataSource = NoLabel
    /\ result = NoResult
    /\ callbacks = 0
    /\ poolsText = <<>>

NextListing ==
    \/ ParseReturns
    \/ Respond

SpecListing == InitListing /\ [][NextListing]_vars

\* The smaller of two numbers.
Min(a, b) == IF a <= b THEN a ELSE b

\* C28: a successful LIST_POOLS result after n pools were decoded has
\* data.totalPools = values.poolCount = n, and data.pools is the first
\* min(n, 20) of the decoded records in the order they were decoded; n is
\* not 0: with no pool decoded the result is a failure.
C28_CountsAndFirstTwenty ==
    (op = "LIST_POOLS" /\ pc = "done")
    => LET n == Len(pools)
       IN /\ result.success <=> n # 0
          /\ result.success
             => /\ result.totalPools = n
                /\ result.poolCount = n
                /\ Len(result.pools) = Min(n, 20)
                /\ \A j \in 1..Min(n, 20) : result.pools[j] = pools[j]
                /\ \A j \in 1..n : pools[j].id = j
                /\ \A j, k \in 1..n : j < k => pools[j].src < pools[k].src

\* 22 entries were decoded, the third lost to a failed token request: 21
\* pools are counted and the first 20 returned, the twentieth from entry 21.
C28_Witness ==
    /\ op = "LIST_POOLS"
    /\ pc = "done"
    /\ result.success
    /\ result.totalPools = 21
    /\ result.poolCount = 21
    /\ Len(result.pools) = 20
    /\ result.pools[3].src = 4
    /\ result.pools[20].src = 21

\* A single decoded pool: counted and returned.
C28_WitnessOne ==
    /\ op = "LIST_POOLS"
    /\ pc = "done"
    /\ result.success
    /\ result.totalPools = 1
    /\ Len(result.pools) = 1

(***************************************************************************)
(* The three actions of plugin-hedera-dex side by side: LIST_POOLS,        *)
(* GET_POOL_INFO and SWAP_TOKENS, each on a few of its inputs.             *)
(***************************************************************************)
ActionOps == {"LIST_POOLS", "GET_POOL_INFO", "SWAP_TOKENS"}

\* Settings of the two pool actions: a network with mirror node and
\* factory, one without either, one with a mirror node URL and no factory.
ActionSettings ==
    {[network |-> "testnet", override |-> "", demo |-> FALSE],
     [network |-> "devnet", override |-> "", demo |-> FALSE],
     [network |-> "previewnet", override |-> CustomUrl, demo |-> FALSE]}

\* Messages of GET_POOL_INFO and of SWAP_TOKENS.
ActionMessages(o) ==
    IF o = "GET_POOL_INFO"
    THEN {Message("slash", "WHBAR", "USDC"), Message("and", "FAKE", "TOKEN"),
          Message("none", "", ""), NoMessage}
    ELSE IF o = "SWAP_TOKENS"
    THEN {SwapMessage("swap", MaxAmount, "HBAR", "USDT"),
          SwapMessage("bare", 1, "HBAR", "FAKE"),
          SwapMessage("none", 0, "", ""), SwapMessage("empty", 0, "", "")}
    ELSE {NoMessage}

InitActions ==
    /\ op \in ActionOps
    /\ settings \in IF op = "SWAP_TOKENS" THEN SwapSettings ELSE ActionSettings
    /\ message \in ActionMessages(op)
    /\ callback \in CallbackPassed(op)
    /\ conv = NoConversion
    /\ swap = NoSwap
    /\ pc = "start"
    /\ requests = <<>>
    /\ logsReq = "idle"
    /\ logs = <<>>
    /\ idx = 0
    /\ cand = NoCandidate
    /\ fetchA = Idle
    /\ fetchB = Idle
    /\ pools = <<>>
    /\ fate = <<>>
    /\ shown = <<>>
    /\ dataSource = NoLabel
    /\ result = NoResult
    /\ callbacks = 0
    /\ poolsText = <<>>

NextActions ==
    \/ RejectConfiguration
    \/ RequestLogs
    \/ LogsRejected
    \/ LogsResolved
    \/ SkipEntry
    \/ DecodeFails
    \/ SkipInvalidIds
    \/ RequestTokens
    \/ SettleTokenA
    \/ SettleTokenB
    \/ Assemble
    \/ ParseReturns
    \/ Respond
    \/ FindRejectRequest
    \/ FindRequestLogs
    \/ FindLogsRejected
    \/ FindLogsResolved
    \/ FindFilter
    \/ FindRespond
    \/ SwapRejectRequest
    \/ SwapSimulate
    \/ SwapPrepareFails
    \/ SwapExecute
    \/ SwapExecuteRejected
    \/ SwapExecuteResolved
    \/ SwapReceiptRejected
    \/ SwapReceiptFailed
    \/ SwapReceiptSuccess
    \/ SwapRecordRejected
    \/ SwapRecordResolved

SpecActions == InitActions /\ [][NextActions]_vars

\* The reason tag and the first words of the failure text of each action.
FailureTag(o) ==
    IF o = "LIST_POOLS" THEN "FETCH_POOLS_FAILED"
    ELSE IF o = "GET_POOL_INFO" THEN "GET_POOL_INFO_FAILED"
    ELSE "SWAP_TOKENS_FAILED"
FailureWords(o) ==
    IF o = "LIST_POOLS" THEN FailedText
    ELSE IF o = "GET_POOL_INFO" THEN FindFailedText
    ELSE SwapFailedText

\* C23: no handler of LIST_POOLS, GET_POOL_INFO or SWAP_TOKENS lets an
\* exception reach its caller: wherever the handler stops it has returned a
\* result, and a result that is not a success has success = false, the
\* reason tag of its action in values.error (FETCH_POOLS_FAILED,
\* GET_POOL_INFO_FAILED, SWAP_TOKENS_FAILED) and a text made of the
\* action's failure sentence followed by the message of the error.  (At a
\* position inside the loop over the log entries one of SkipEntry,
\* DecodeFails, SkipInvalidIds and RequestTokens applies, their guards being
\* the four cases of one distinction on the entry; every other position
\* that is not a return is shown to have a next step.)
C23_FailuresReturned ==
    /\ pc # "done" => (InLoop \/ ENABLED NextActions)
    /\ pc = "done"
       => /\ result.returned
          /\ ~result.success
             => /\ result.error = FailureTag(op)
                /\ result.message # <<>>
                /\ result.text = FailureWords(op) \o result.message
          /\ result.success => result.error = ""
    /\ pc # "done" => ~result.returned

\* SWAP_TOKENS with both credentials and a network without router: the
\* failure of executeRealSwap is returned with the tag.
C23_Witness ==
    /\ op = "SWAP_TOKENS"
    /\ pc = "done"
    /\ SwapNetwork = "previewnet"
    /\ ~result.success
    /\ result.error = "SWAP_TOKENS_FAILED"
    /\ StartsWith(result.message, SwapExecutionFailed \o RouterNotFound)

\* GET_POOL_INFO whose log request failed.
C23_WitnessFind ==
    /\ op = "GET_POOL_INFO"
    /\ pc = "done"
    /\ logsReq = "rejected"
    /\ result.error = "GET_POOL_INFO_FAILED"

\* LIST_POOLS that decoded no pool.
C23_WitnessList ==
    /\ op = "LIST_POOLS"
    /\ pc = "done"
    /\ logsReq = "resolved"
    /\ result.error = "FETCH_POOLS_FAILED"
    /\ result.message = NoPoolsFound

\* C27: in LIST_POOLS and GET_POOL_INFO the response callback the caller
\* passed is invoked exactly once on a run that yields at least one pool
\* (one pool of the pair), in the step in which the handler returns, when
\* the log request has resolved and no token request is pending; it is not
\* invoked on a run whose log request fails, that yields no pool, or that
\* fails before any request.
C27_CallbackOnceOnSuccess ==
    [][(op \in {"LIST_POOLS", "GET_POOL_INFO"})
       => /\ callbacks' # callbacks
             => /\ callback
                /\ callbacks = 0 /\ callbacks' = 1
                /\ pc = "respond" /\ pc' = "done"
                /\ logsReq = "resolved"
                /\ InFlight = 0
                /\ Len(requests) = 1 + 2 * Len(FetchedEntries)
                /\ result'.success
                /\ result'.pools # <<>>
          /\ pc' = "done"
             => /\ (result'.success /\ callback) => callbacks' = 1
                /\ result'.success <=> result'.pools # <<>>
                /\ ~result'.success => callbacks' = 0
                /\ logsReq' = "rejected" => callbacks' = 0
      ]_vars

\* GET_POOL_INFO found the pool of the pair: one invocation, after five
\* requests.
C27_Witness ==
    /\ op = "GET_POOL_INFO"
    /\ callback
    /\ pc = "done"
    /\ result.success
    /\ Len(requests) = 5
    /\ callbacks = 1

\* LIST_POOLS with a callback whose token requests all failed: no pool and
\* no invocation.
C27_WitnessNoPool ==
    /\ op = "LIST_POOLS"
    /\ callback
    /\ pc = "done"
    /\ Len(requests) = 3
    /\ ~result.success
    /\ callbacks = 0

\* LIST_POOLS returned pools to a caller that passed a callback.
C27_WitnessList ==
    /\ op = "LIST_POOLS"
    /\ callback
    /\ pc = "done"
    /\ result.success
    /\ callbacks = 1

====
